---- MODULE Spec2Model ----
(***************************************************************************)
(* Halligan safe runtime: the three stage orchestrators (stages/stage1.py, *)
(* stage2.py, stage3.py), the Stage-2 plan applier and the Stage-3         *)
(* restricted-DSL interpreter (runtime/executor.py).                       *)
(*                                                                         *)
(* Three specifications share the module:                                  *)
(*   SpecOrch  the retry loop of one orchestrator call                     *)
(*   SpecS2    apply_stage2_plan on a frame tree                           *)
(*   SpecS3    execute_stage3_program on a program                         *)
(***************************************************************************)
EXTENDS Integers, Sequences, FiniteSets, TLC

VARIABLES
    \* ---- orchestrators ----
    o_stage,      \* 1, 2, 3: which orchestrator is running
    o_pc,         \* position in the orchestrator
    o_attempt,    \* iterations of the for loop started so far
    o_hist,       \* len(agent.history)
    o_prompt,     \* the local `prompt`: the stage prompt or a feedback prompt
    o_calls,      \* one record per agent(prompt, ...) call made by the orchestrator
    o_exc,        \* the exception in flight inside the attempt (NoError if none)
    o_last,       \* the local last_error / feedback
    o_errs,       \* the exception each failed attempt ended with, in order
    o_raised,     \* the exception that left the orchestrator (NoError if none)
    o_resets,     \* agent.reset() calls since the last agent call
    o_lastop,     \* the last operation performed on the agent
    o_validated,  \* attempts whose response parsed and validated
    o_injected,   \* vision_tools._agent is the current agent
    o_executed,   \* runs of execute_stage3_program started by the orchestrator
    \* ---- Stage-2 applier ----
    frames,       \* the list of top-level frames (each a tree)
    s2_i,         \* actions of the plan applied so far
    s2_pc,        \* "idle", "apply", "returned", "raised"
    s2_exc,       \* the exception apply_stage2_plan raised
    \* ---- Stage-3 interpreter ----
    registry,     \* ToolRegistry._tools: name -> callable
    program,      \* program.steps
    env,          \* the interpreter's environment
    s3_stack,     \* the active run_steps invocations, outermost first
    s3_pc,        \* "idle", "run", "returned", "raised"
    s3_exc,       \* the exception that left execute_stage3_program
    s3_ev,        \* what the step executed last did, in order
    s3_step,      \* the step executed last
    s3_run,       \* runs of execute_stage3_program started so far
    \* ---- parser and validators ----
    f_fn,         \* the function called: "parse", "validate_stage1", "validate_stage2"
    f_in,         \* its argument: the response text, or the parsed data
    f_n,          \* the frames= argument of a validator
    f_out         \* what the call returned or raised ("pending" before it ran)

ovars == <<o_stage, o_pc, o_attempt, o_hist, o_prompt, o_calls, o_exc, o_last,
           o_errs, o_raised, o_resets, o_lastop, o_validated, o_injected, o_executed>>
s2vars == <<frames, s2_i, s2_pc, s2_exc>>
s3vars == <<registry, program, env, s3_stack, s3_pc, s3_exc, s3_ev, s3_step, s3_run>>
fvars == <<f_fn, f_in, f_n, f_out>>
vars == <<ovars, s2vars, s3vars, fvars>>

(***************************************************************************)
(* Exceptions.  An exception is identified by its kind and by the attempt  *)
(* that raised it.                                                         *)
(***************************************************************************)
NoError == [kind |-> "None", at |-> 0]

Exc(kind, at) == [kind |-> kind, at |-> at]

(***************************************************************************)
(* JSON and runtime values                                                 *)
(*                                                                         *)
(* A JSON value is a record tagged by j: null, bool, int, str, list (l a   *)
(* sequence) or dict (d a function from keys).  Runtime values are the     *)
(* JSON atoms and lists, and objects: j = "obj" with the class name, an    *)
(* identity (a tuple of numbers) and the attribute names the object has.   *)
(***************************************************************************)
JNull == [j |-> "null"]
JB(b) == [j |-> "bool", b |-> b]
JI(n) == [j |-> "int", n |-> n]
JS(s) == [j |-> "str", s |-> s]
JL(l) == [j |-> "list", l |-> l]
JD(d) == [j |-> "dict", d |-> d]
Obj(cls, id, attrs) == [j |-> "obj", cls |-> cls, id |-> id, attrs |-> attrs]

\* dict.get(key) and dict.get(key, default)
GetD(d, key, default) == IF key \in DOMAIN d THEN d[key] ELSE default
Get(d, key) == GetD(d, key, JNull)

\* isinstance(x, int): bool is a subclass of int
PyIsInt(x) == x.j \in {"int", "bool"}
PyInt(x) == IF x.j = "bool" THEN (IF x.b THEN 1 ELSE 0) ELSE x.n
PyIsStr(x) == x.j = "str"

\* bool(x)
PyTruthy(x) ==
    CASE x.j = "null" -> FALSE
      [] x.j = "bool" -> x.b
      [] x.j = "int" -> x.n # 0
      [] x.j = "str" -> x.s # ""
      [] x.j = "list" -> x.l # <<>>
      [] x.j = "dict" -> DOMAIN x.d # {}
      [] OTHER -> TRUE

\* obj.__class__.__name__
_class_name(obj) ==
    CASE obj.j = "obj" -> obj.cls
      [] obj.j = "null" -> "NoneType"
      [] OTHER -> obj.j

\* the prefix test that lets every name through
StartsWithDunderNever(name) == FALSE

\* name.startswith("__")
StartsWithDunder(name) == Len(name) >= 2 /\ SubSeq(name, 1, 2) = "__"

\* hasattr(obj, name): every Python value has __class__ and __dict__
HasAttr(obj, name) ==
    \/ name \in {"__class__", "__dict__"}
    \/ obj.j = "obj" /\ name \in obj.attrs

\* the value getattr(obj, name) yields when the attribute exists: an opaque
\* object identified by where it was read from
AttrValue(obj, name) ==
    [j |-> "obj", cls |-> "Attr", id |-> <<>>, attrs |-> {},
     of |-> <<_class_name(obj), name>>]

\* the items iterating or indexing a value goes through: the elements of a
\* list, the characters of a string (a string longer than one character is
\* not taken apart: its characters are represented by "?")
PyItems(v) ==
    IF v.j = "list" THEN v.l
    ELSE IF Len(v.s) <= 1 THEN [i \in 1..Len(v.s) |-> v]
    ELSE [i \in 1..Len(v.s) |-> JS("?")]

PyIsSequence(v) == v.j \in {"list", "str"}

\* _ALLOWED_METHODS.get(cls, set())
_ALLOWED_METHODS(cls) ==
    CASE cls = "Frame" -> {"show_keypoints", "get_keypoint", "get_interactable"}
      [] cls = "Point" -> {"show_neighbours", "get_neighbour"}
      [] cls = "SelectChoice" -> {"select"}
      [] cls = "SlideChoice" -> {"refine", "release"}
      [] cls = "SwapChoice" -> {"swap"}
      [] cls = "DragChoice" -> {"drop"}
      [] cls = "Choice" -> {"release"}
      [] OTHER -> {}

EmptyDict == <<>>

\* env[name] = value
Bind(e, name, value) ==
    [n \in DOMAIN e \cup {name} |-> IF n = name THEN value ELSE e[n]]

(***************************************************************************)
(* Stage-2 applier: apply_stage2_plan and _collect_interactables           *)
(***************************************************************************)
MaxFrames == 2
MaxCount == 2
MaxPlan == 2

\* InteractableFrame / InteractableElement names
FrameTags == {"SELECTABLE", "SWAPPABLE", "NEXT"}
ElementTags == {"SWAPPABLE", "NEXT"}
Positions == {"up", "down", "left", "right", "all"}

\* DummyFrame.__init__: no tag, no elements, no subframes.  An element is
\* represented by its interactable tag.
BlankFrame == [interactable |-> "None", interactables |-> <<>>, subframes |-> <<>>]

\* n copies of x
Repeat(x, n) == [i \in 1..n |-> x]

\* The actions of a Stage2Plan for a list of n frames, and one whose type is
\* none of the four
Stage2Actions(n) ==
    [type : {"set_frame"}, frame : 0..(n - 1), interactable : FrameTags]
    \cup [type : {"split_frame"}, frame : 0..(n - 1), rows : 1..MaxCount,
          columns : 1..MaxCount, mark_as : FrameTags]
    \cup [type : {"grid_frame"}, frame : 0..(n - 1), tiles : 1..MaxCount,
          mark_as : ElementTags]
    \cup [type : {"get_element"}, frame : 0..(n - 1), position : Positions,
          mark_as : ElementTags]
    \cup [type : {"merge_frame"}, frame : 0..(n - 1)]

\* the walk without the descent into subframes: it stops at the top-level
\* frames
CollectTopOnly(queue, types, next_count) ==
    LET tagsOf(f) ==
            (IF f.interactable # "None" THEN {f.interactable} ELSE {})
            \cup {f.interactables[k] : k \in
                    {j \in DOMAIN f.interactables : f.interactables[j] # "None"}}
        nextOf(f) ==
            (IF f.interactable = "NEXT" THEN 1 ELSE 0)
            + Cardinality({j \in DOMAIN f.interactables : f.interactables[j] = "NEXT"})
        Sum[i \in 0..Len(queue)] ==
            IF i = 0 THEN 0 ELSE Sum[i - 1] + nextOf(queue[i])
    IN [types |-> types \cup UNION {tagsOf(queue[i]) : i \in DOMAIN queue},
        next_count |-> next_count + Sum[Len(queue)]]

\* _collect_interactables: the queue walk over the frame tree
RECURSIVE Collect(_, _, _)
Collect(queue, types, next_count) ==
    IF queue = <<>>
    THEN [types |-> types, next_count |-> next_count]
    ELSE LET frame == Head(queue)
             ftypes == IF frame.interactable # "None"
                       THEN types \cup {frame.interactable} ELSE types
             fnext == IF frame.interactable = "NEXT"
                      THEN next_count + 1 ELSE next_count
             els == frame.interactables
             etypes == ftypes \cup
                       {els[k] : k \in {j \in DOMAIN els : els[j] # "None"}}
             enext == fnext + Cardinality({j \in DOMAIN els : els[j] = "NEXT"})
         IN Collect(Tail(queue) \o frame.subframes, etypes, enext)

\* the effect of one plan action on its frame (DummyFrame / DummyElement):
\* set_frame_as sets the tag, split replaces the subframes by rows * columns
\* new frames, set_element_as appends the element to its parent
ApplyAction(frame, action) ==
    CASE action.type = "set_frame" ->
            [frame EXCEPT !.interactable = action.interactable]
      [] action.type = "split_frame" ->
            [frame EXCEPT !.subframes =
                Repeat([BlankFrame EXCEPT !.interactable = action.mark_as],
                       action.rows * action.columns)]
      [] action.type = "grid_frame" ->
            [frame EXCEPT !.interactables = @ \o Repeat(action.mark_as, action.tiles)]
      [] action.type = "get_element" ->
            [frame EXCEPT !.interactables = Append(@, action.mark_as)]
      [] OTHER -> frame

KnownAction(action) ==
    action.type \in {"set_frame", "split_frame", "grid_frame", "get_element"}

\* a post-condition that lets a tree without a non-NEXT tag pass
PostConditionAtMostOne(c) ==
    /\ Cardinality({t \in c.types : t # "NEXT"}) <= 1
    /\ ~(c.next_count > 1)

\* the post-condition of apply_stage2_plan on what the walk returned
PostCondition(c) ==
    /\ Cardinality({t \in c.types : t # "NEXT"}) = 1
    /\ ~(c.next_count > 1)

\* apply_stage2_plan(frames, plan) as one call: the frames it leaves, and
\* whether it returned (it raises ValidationError at an action of unknown
\* type and when the post-condition fails)
apply_stage2_plan(fs, plan) ==
    LET After[i \in 0..Len(plan)] ==
            IF i = 0 THEN fs
            ELSE [After[i - 1] EXCEPT ![plan[i].frame + 1] = ApplyAction(@, plan[i])]
        unknown == {i \in DOMAIN plan : ~KnownAction(plan[i])}
        done == IF unknown = {} THEN Len(plan)
                ELSE (CHOOSE i \in unknown : \A k \in unknown : i <= k) - 1
    IN [frames |-> After[done],
        ok |-> unknown = {} /\ PostCondition(Collect(After[done], {}, 0))]

\* the Frame the stages are handed: no description, no relations, no tag
CaptchaFrame ==
    [interactable |-> "None", interactables |-> <<>>, subframes |-> <<>>,
     description |-> "None", relations |-> <<>>]

\* the plans validate_stage2 hands to the applier in a stage of n frames:
\* one tag, a lone NEXT, elements with a NEXT, nothing
AgentPlans(n) ==
    { <<[type |-> "set_frame", frame |-> 0, interactable |-> "SELECTABLE"]>>,
      <<[type |-> "set_frame", frame |-> n - 1, interactable |-> "NEXT"]>>,
      <<[type |-> "grid_frame", frame |-> 0, tiles |-> 1, mark_as |-> "SWAPPABLE"],
        [type |-> "get_element", frame |-> n - 1, position |-> "up", mark_as |-> "NEXT"]>>,
      <<>> }

(***************************************************************************)
(* parse_json_from_response (runtime/parser.py)                            *)
(*                                                                         *)
(* A response is a Python str (JS) or None (JNull).  The texts of the      *)
(* model are spelled with the characters of Alphabet, and json.loads is    *)
(* modelled on the JSON such texts can hold: objects of at most one        *)
(* member, strings without escapes, unsigned integers.  A TLA+ string      *)
(* cannot hold a backtick: the apostrophe stands for it throughout.        *)
(***************************************************************************)
Alphabet == {"{", "}", "'", "\"", ":", "1", "x", " ", "\n"}

Whitespace == {" ", "\n", "\t"}
Digits == {"0", "1", "2", "3", "4", "5", "6", "7", "8", "9"}

\* s[a-1:b] for 1-based a, b: a slice, cut at the end of s
Slice(s, a, b) == SubSeq(s, a, IF b > Len(s) THEN Len(s) ELSE b)

\* s[i] for a 1-based i
Ch(s, i) == SubSeq(s, i, i)

\* the first index >= i that holds no whitespace (Len(s) + 1 if none)
RECURSIVE SkipWs(_, _)
SkipWs(s, i) ==
    IF i <= Len(s) /\ Ch(s, i) \in Whitespace THEN SkipWs(s, i + 1) ELSE i

\* str.strip()
Strip(s) ==
    LET last[i \in 0..Len(s)] ==
            IF i > 0 /\ Ch(s, i) \in Whitespace THEN last[i - 1] ELSE i
    IN IF SkipWs(s, 1) > Len(s) THEN "" ELSE SubSeq(s, SkipWs(s, 1), last[Len(s)])

\* s.find(sub) from index i on: the first index where sub starts, 0 if none
RECURSIVE Find(_, _, _)
Find(s, sub, i) ==
    IF i + Len(sub) - 1 > Len(s) THEN 0
    ELSE IF SubSeq(s, i, i + Len(sub) - 1) = sub THEN i
    ELSE Find(s, sub, i + 1)

\* str.lower() of an ASCII text
Lower(x) ==
    LET Lowers == "abcdefghijklmnopqrstuvwxyz"
        Uppers == "ABCDEFGHIJKLMNOPQRSTUVWXYZ"
        LowerCh(c) == IF Find(Uppers, c, 1) # 0 THEN Ch(Lowers, Find(Uppers, c, 1)) ELSE c
        low[i \in 0..Len(x)] ==
            IF i = 0 THEN "" ELSE low[i - 1] \o LowerCh(Ch(x, i))
    IN low[Len(x)]

\* s.rfind(sub): the last index where sub starts at or before i, 0 if none
RECURSIVE RFind(_, _, _)
RFind(s, sub, i) ==
    IF i < 1 THEN 0
    ELSE IF Slice(s, i, i + Len(sub) - 1) = sub THEN i
    ELSE RFind(s, sub, i - 1)

\* the index after the digits that start at i
RECURSIVE DigitsEnd(_, _)
DigitsEnd(s, i) ==
    IF i <= Len(s) /\ Ch(s, i) \in Digits THEN DigitsEnd(s, i + 1) ELSE i

\* int(digits)
RECURSIVE IntOf(_)
IntOf(s) ==
    LET DigitValue(c) ==
            CASE c = "0" -> 0 [] c = "1" -> 1 [] c = "2" -> 2 [] c = "3" -> 3
              [] c = "4" -> 4 [] c = "5" -> 5 [] c = "6" -> 6 [] c = "7" -> 7
              [] c = "8" -> 8 [] OTHER -> 9
    IN IF s = "" THEN 0
       ELSE 10 * IntOf(SubSeq(s, 1, Len(s) - 1)) + DigitValue(Ch(s, Len(s)))

\* a JSON string may hold no raw control character
RECURSIVE NoControl(_)
NoControl(s) ==
    \/ s = ""
    \/ Ch(s, 1) \notin {"\n", "\t"} /\ NoControl(SubSeq(s, 2, Len(s)))

DecodeFail == [ok |-> FALSE, v |-> JNull, next |-> 0]
DecodeAt(v, next) == [ok |-> TRUE, v |-> v, next |-> next]

\* the string literal whose opening quote is at i
DecodeString(s, i) ==
    LET q == Find(s, "\"", i + 1)
    IN IF q = 0 \/ ~NoControl(SubSeq(s, i + 1, q - 1)) THEN DecodeFail
       ELSE DecodeAt(JS(SubSeq(s, i + 1, q - 1)), q + 1)

\* JSONDecoder.raw_decode: the value that starts at i and the index after it
RECURSIVE Decode(_, _)
Decode(s, i) ==
    IF i > Len(s) THEN DecodeFail
    ELSE IF Ch(s, i) = "\"" THEN DecodeString(s, i)
    ELSE IF Ch(s, i) \in Digits THEN
        LET e == DigitsEnd(s, i)
        IN IF Ch(s, i) = "0" THEN DecodeAt(JI(0), i + 1)
           ELSE DecodeAt(JI(IntOf(SubSeq(s, i, e - 1))), e)
    ELSE IF Ch(s, i) = "{" THEN
        LET k == SkipWs(s, i + 1)
        IN IF k > Len(s) THEN DecodeFail
           ELSE IF Ch(s, k) = "}" THEN DecodeAt(JD(<<>>), k + 1)
           ELSE IF Ch(s, k) # "\"" THEN DecodeFail
           ELSE LET key == DecodeString(s, k)
                IN IF ~key.ok THEN DecodeFail
                   ELSE LET c == SkipWs(s, key.next)
                        IN IF c > Len(s) \/ Ch(s, c) # ":" THEN DecodeFail
                           ELSE LET v == Decode(s, SkipWs(s, c + 1))
                                IN IF ~v.ok THEN DecodeFail
                                   ELSE LET e == SkipWs(s, v.next)
                                        IN IF e <= Len(s) /\ Ch(s, e) = "}"
                                           THEN DecodeAt(JD(key.v.s :> v.v), e + 1)
                                           ELSE DecodeFail
    ELSE DecodeFail

\* what the decoder says when it fails
DecoderMessage == "Expecting value"

\* json.loads(s): the value, or the error of the decoder; anything after the
\* value but whitespace is an error
JsonLoads(s) ==
    LET r == Decode(s, SkipWs(s, 1))
    IN IF r.ok /\ SkipWs(s, r.next) > Len(s)
       THEN [st |-> "ok", v |-> r.v, msg |-> ""]
       ELSE [st |-> "error", v |-> JNull, msg |-> DecoderMessage]

Fence == "'''"

\* the first closing brace at or after b that only whitespace separates
\* from a fence (0 if none): where the lazy .*? of the pattern stops
RECURSIVE FenceClose(_, _)
FenceClose(s, b) ==
    IF b > Len(s) THEN 0
    ELSE IF Ch(s, b) = "}" /\ Slice(s, SkipWs(s, b + 1), SkipWs(s, b + 1) + 2) = Fence
         THEN b
    ELSE FenceClose(s, b + 1)

\* the match of the pattern that begins with the fence at i: group(1) as
\* [a, b], or a = 0.  The optional word json is consumed when it is there
\* (case ignored), then all whitespace, then the object must open.
FenceMatchAt(s, i) ==
    LET j == IF Slice(s, i + 3, i + 6) \in {"json", "JSON"} THEN i + 7 ELSE i + 3
        a == SkipWs(s, j)
        b == IF a <= Len(s) /\ Ch(s, a) = "{" THEN FenceClose(s, a + 1) ELSE 0
    IN IF b = 0 THEN [a |-> 0, b |-> 0] ELSE [a |-> a, b |-> b]

\* _JSON_FENCE_RE.search(raw): the leftmost match from index i on
RECURSIVE FenceSearch(_, _)
FenceSearch(s, i) ==
    LET f == Find(s, Fence, i)
    IN IF f = 0 THEN [a |-> 0, b |-> 0]
       ELSE IF FenceMatchAt(s, f).a # 0 THEN FenceMatchAt(s, f)
       ELSE FenceSearch(s, f + 1)

ParseOk(v) == [st |-> "ok", v |-> v, msg |-> ""]
ParseFail(msg) == [st |-> "ParseError", v |-> JNull, msg |-> msg]

\* the parser that reports every failure with one fixed message
parse_json_terse(text) ==
    IF text = JNull THEN ParseFail("Empty response (None)")
    ELSE LET raw == Strip(text.s)
             m == FenceSearch(raw, 1)
             start == Find(raw, "{", 1)
             end == RFind(raw, "}", Len(raw))
         IN IF raw = "" THEN ParseFail("Empty response")
            ELSE IF JsonLoads(raw).st = "ok" THEN ParseOk(JsonLoads(raw).v)
            ELSE IF m.a # 0 THEN
                 LET r == JsonLoads(Strip(SubSeq(raw, m.a, m.b)))
                 IN IF r.st = "ok" THEN ParseOk(r.v)
                    ELSE ParseFail("Failed to parse fenced JSON")
            ELSE IF start # 0 /\ end # 0 /\ end > start THEN
                 LET r == JsonLoads(SubSeq(raw, start, end))
                 IN IF r.st = "ok" THEN ParseOk(r.v)
                    ELSE ParseFail("Failed to parse extracted JSON")
            ELSE ParseFail("No JSON object found in response")

\* parse_json_from_response(text)
parse_json_from_response(text) ==
    IF text = JNull THEN ParseFail("Empty response (None)")
    ELSE LET raw == Strip(text.s)
             m == FenceSearch(raw, 1)
             start == Find(raw, "{", 1)
             end == RFind(raw, "}", Len(raw))
         IN IF raw = "" THEN ParseFail("Empty response")
            ELSE IF JsonLoads(raw).st = "ok" THEN ParseOk(JsonLoads(raw).v)
            ELSE IF m.a # 0 THEN
                 LET r == JsonLoads(Strip(SubSeq(raw, m.a, m.b)))
                 IN IF r.st = "ok" THEN ParseOk(r.v)
                    ELSE ParseFail("Failed to parse fenced JSON: " \o r.msg)
            ELSE IF start # 0 /\ end # 0 /\ end > start THEN
                 LET r == JsonLoads(SubSeq(raw, start, end))
                 IN IF r.st = "ok" THEN ParseOk(r.v)
                    ELSE ParseFail("Failed to parse extracted JSON: " \o r.msg)
            ELSE ParseFail("No JSON object found in response")

(***************************************************************************)
(* Schema validators (runtime/schemas.py).  A validator returns            *)
(* [st |-> "ok", v |-> result] or raises: [st |-> "ValidationError"].      *)
(***************************************************************************)
JF(x) == [j |-> "float", x |-> x]

VOk(v) == [st |-> "ok", v |-> v]
VFail == [st |-> "ValidationError", v |-> JNull]

\* _require_int(value, path): TRUE when it returns.  isinstance(value, int)
\* holds for bool, a subclass of int.
_require_int(value) == PyIsInt(value)

\* _require_optional_int(value, path): TRUE when it returns
_require_optional_int(value) == value = JNull \/ _require_int(value)

\* the range test that also admits the number of frames itself
InRangeInclusive(x, n) == 0 <= PyInt(x) /\ PyInt(x) <= n

\* 0 <= x < frames
InRange(x, n) == 0 <= PyInt(x) /\ PyInt(x) < n

\* for i, d in enumerate(descriptions): desc_out.append(_require_str(d).strip())
RECURSIVE Stage1Descriptions(_, _)
Stage1Descriptions(items, desc_out) ==
    IF items = <<>> THEN VOk(desc_out)
    ELSE IF ~PyIsStr(Head(items)) THEN VFail
    ELSE Stage1Descriptions(Tail(items), Append(desc_out, Strip(Head(items).s)))

\* for i, rel in enumerate(relations_raw): ... rel_out.append(Stage1Relation(...))
RECURSIVE Stage1Relations(_, _, _)
Stage1Relations(items, n, rel_out) ==
    IF items = <<>> THEN VOk(rel_out)
    ELSE LET rel == Head(items)
         IN IF rel.j # "dict" THEN VFail
            ELSE LET src == Get(rel.d, "from")
                     dst == Get(rel.d, "to")
                     relationship == GetD(rel.d, "relationship", JS(""))
                 IN IF ~_require_int(src) THEN VFail
                    ELSE IF ~_require_optional_int(dst) THEN VFail
                    ELSE IF ~PyIsStr(relationship) THEN VFail
                    ELSE IF ~InRange(src, n) THEN VFail
                    ELSE IF dst # JNull /\ ~InRange(dst, n) THEN VFail
                    ELSE Stage1Relations(Tail(items), n,
                            Append(rel_out, [src |-> src, dst |-> dst,
                                             relationship |-> Strip(relationship.s)]))

\* validate_stage1(data, frames=n)
validate_stage1(data, n) ==
    IF data.j # "dict" THEN VFail
    ELSE LET descriptions == Get(data.d, "descriptions")
             relations_raw == GetD(data.d, "relations", JL(<<>>))
             objective == Get(data.d, "objective")
         IN IF descriptions.j # "list" THEN VFail
            ELSE IF Len(descriptions.l) # n THEN VFail
            ELSE IF Stage1Descriptions(descriptions.l, <<>>).st # "ok" THEN VFail
            ELSE IF relations_raw.j # "list" THEN VFail
            ELSE IF Stage1Relations(relations_raw.l, n, <<>>).st # "ok" THEN VFail
            ELSE IF ~PyIsStr(objective) THEN VFail
            ELSE IF Strip(objective.s) = "" THEN VFail
            ELSE VOk([descriptions |-> Stage1Descriptions(descriptions.l, <<>>).v,
                      relations |-> Stage1Relations(relations_raw.l, n, <<>>).v,
                      objective |-> Strip(objective.s)])

\* Payloads of the validators
\* a key left out of an object
Absent == [j |-> "absent"]

\* the JSON object with the members of f that are not left out
MkDict(f) == JD([k \in {x \in DOMAIN f : f[x] # Absent} |-> f[k]])

\* JSON values met where the schema wants an integer
IntCandidates ==
    { JI(-1), JI(0), JI(1), JI(MaxFrames), JB(TRUE), JB(FALSE), JF(1), JS("0"),
      JNull, JL(<<>>), JD(<<>>) }

\* the payloads handed to validate_stage1(., frames=n): every shape of
\* descriptions with a few relations, every relation with good descriptions
Stage1Payloads(n) ==
    LET GoodRelation ==
            MkDict(("from" :> JI(0)) @@ ("to" :> JNull) @@ ("relationship" :> JS(" r ")))
        RelationItems ==
            {JS("r"), MkDict("from" :> JI(0))}
            \cup {MkDict(("from" :> f) @@ ("to" :> t) @@ ("relationship" :> r)) :
                     f \in IntCandidates, t \in IntCandidates, r \in {JS(" r "), JI(1)}}
        Objectives == {JNull, JI(1), JS(" \n"), JS(" go ")}
    IN
    {JNull, JL(<<>>)}
    \cup {MkDict(("descriptions" :> d) @@ ("relations" :> r) @@ ("objective" :> o)) :
             d \in {Absent, JS("d")}
                   \cup {JL(l) : l \in UNION {[1..k -> {JS(" d "), JI(1)}] :
                                                k \in 0..(MaxFrames + 1)}},
             r \in {Absent, JNull, JL(<<GoodRelation>>)},
             o \in Objectives}
    \cup {MkDict(("descriptions" :> JL(Repeat(JS("d"), n))) @@ ("relations" :> JL(l))
                 @@ ("objective" :> o)) :
             l \in {<<x>> : x \in RelationItems}
                   \cup {<<GoodRelation, x>> : x \in RelationItems},
             o \in Objectives}

\* the payloads handed to validate_stage2; the items of $.actions are a good
\* item of each type, and the same with one member changed
Stage2Payloads ==
    LET SetFrameItem(frame, interactable) ==
            MkDict(("type" :> JS("set_frame")) @@ ("frame" :> frame)
                   @@ ("interactable" :> interactable))
        SplitFrameItem(rows, columns, mark_as) ==
            MkDict(("type" :> JS("split_frame")) @@ ("frame" :> JI(0)) @@ ("rows" :> rows)
                   @@ ("columns" :> columns) @@ ("mark_as" :> mark_as))
        GridFrameItem(tiles, mark_as) ==
            MkDict(("type" :> JS("grid_frame")) @@ ("frame" :> JI(0)) @@ ("tiles" :> tiles)
                   @@ ("mark_as" :> mark_as))
        GetElementItem(position, details, mark_as) ==
            MkDict(("type" :> JS("get_element")) @@ ("frame" :> JI(0))
                   @@ ("position" :> position) @@ ("details" :> details)
                   @@ ("mark_as" :> mark_as))
        ActionItems ==
            {SetFrameItem(f, JS("SELECTABLE")) : f \in IntCandidates}
            \cup {SetFrameItem(JI(0), i) : i \in {JS("bogus"), Absent}}
            \cup {SplitFrameItem(r, JI(1), JS("SELECTABLE")) :
                  r \in {JI(2), JI(0), JB(TRUE), JF(2), JS("2")}}
            \cup {SplitFrameItem(JI(2), c, JS("SELECTABLE")) : c \in {JI(0), JB(TRUE)}}
            \cup {SplitFrameItem(JI(2), JI(1), JS("bogus"))}
            \cup {GridFrameItem(t, JS("SWAPPABLE")) : t \in {JI(2), JI(0), JB(TRUE), JF(2)}}
            \cup {GridFrameItem(JI(2), JS("SELECTABLE"))}
            \cup {GetElementItem(JS("up"), d, JS("NEXT")) : d \in {JS(" d "), JS("  "), JI(1)}}
            \cup {GetElementItem(JS("middle"), JS(" d "), JS("NEXT")),
                  GetElementItem(JS("up"), JS(" d "), JS("SELECTABLE"))}
            \cup {MkDict(("type" :> JS("merge_frame")) @@ ("frame" :> JI(0))),
                  MkDict("frame" :> JI(0)), JS("set_frame")}
    IN {JNull, MkDict("actions" :> JNull)}
       \cup {MkDict("actions" :> JL(l)) :
                l \in UNION {[1..k -> ActionItems] : k \in 0..MaxPlan}}

\* the results validate_stage1 returns in a stage of n frames, for the
\* payloads of an agent: descriptions for n or n + 1 frames, relations that
\* are absent, in range or out of range, an objective or a blank one
Stage1Results(n) ==
    LET relation(src, dst) ==
            MkDict(("from" :> JI(src)) @@ ("to" :> dst) @@ ("relationship" :> JS(" r ")))
        payloads ==
            {MkDict(("descriptions" :> JL(Repeat(JS(" d "), k))) @@ ("relations" :> r)
                    @@ ("objective" :> o)) :
                k \in {n, n + 1},
                r \in {Absent, JL(<<relation(0, JNull)>>),
                       JL(<<relation(n - 1, JI(0)), relation(0, JNull)>>),
                       JL(<<relation(n, JI(0))>>)},
                o \in {JS(" go "), JS(" ")}}
    IN {validate_stage1(d, n).v : d \in {p \in payloads : validate_stage1(p, n).st = "ok"}}

\* for i, desc in enumerate(result.descriptions): frames[i].description = desc
\* for rel in result.relations:
\*     frames[rel.src].relations[rel.dst] = rel.relationship
\* The key None of relations is written -1.
Stage1Write(fs, result) ==
    LET described ==
            [i \in DOMAIN fs |-> [fs[i] EXCEPT !.description = result.descriptions[i]]]
        rels == result.relations
        Written[k \in 0..Len(rels)] ==
            IF k = 0 THEN described
            ELSE [Written[k - 1] EXCEPT ![PyInt(rels[k].src) + 1].relations =
                     Bind(@, IF rels[k].dst = JNull THEN -1 ELSE PyInt(rels[k].dst),
                          rels[k].relationship)]
    IN Written[Len(rels)]

\* a string check with an open enumeration
StrAny(value, allowed) == PyIsStr(value)

\* _require_str(value) followed by _require_one_of(value, allowed)
StrOneOf(value, allowed) == PyIsStr(value) /\ value.s \in allowed

\* one iteration of the loop of validate_stage2: the Stage2Action built from
\* the item (type and payload in one record), or the failure
Stage2Item(item, n) ==
    IF item.j # "dict" THEN VFail
    ELSE LET o == item.d
             action_type == Get(o, "type")
             frame_id == Get(o, "frame")
         IN
         IF ~StrOneOf(action_type,
                     {"set_frame", "split_frame", "grid_frame", "get_element"}) THEN VFail
         ELSE IF ~_require_int(frame_id) THEN VFail
         ELSE IF ~InRange(frame_id, n) THEN VFail
         ELSE IF action_type.s = "set_frame" THEN
              IF ~StrOneOf(Get(o, "interactable"), FrameTags) THEN VFail
              ELSE VOk([type |-> "set_frame", frame |-> frame_id,
                        interactable |-> o["interactable"].s])
         ELSE IF action_type.s = "split_frame" THEN
              LET rows == Get(o, "rows")
                  columns == Get(o, "columns")
              IN IF ~_require_int(rows) THEN VFail
                 ELSE IF ~_require_int(columns) THEN VFail
                 ELSE IF ~StrOneOf(Get(o, "mark_as"), FrameTags) THEN VFail
                 ELSE IF PyInt(rows) <= 0 \/ PyInt(columns) <= 0 THEN VFail
                 ELSE VOk([type |-> "split_frame", frame |-> frame_id, rows |-> rows,
                           columns |-> columns, mark_as |-> o["mark_as"].s])
         ELSE IF action_type.s = "grid_frame" THEN
              LET tiles == Get(o, "tiles")
              IN IF ~_require_int(tiles) THEN VFail
                 ELSE IF ~StrOneOf(Get(o, "mark_as"), ElementTags) THEN VFail
                 ELSE IF PyInt(tiles) <= 0 THEN VFail
                 ELSE VOk([type |-> "grid_frame", frame |-> frame_id, tiles |-> tiles,
                           mark_as |-> o["mark_as"].s])
         ELSE LET details == Get(o, "details")
              IN IF ~StrOneOf(Get(o, "position"), Positions) THEN VFail
                 ELSE IF ~PyIsStr(details) THEN VFail
                 ELSE IF Strip(details.s) = "" THEN VFail
                 ELSE IF ~StrOneOf(Get(o, "mark_as"), ElementTags) THEN VFail
                 ELSE VOk([type |-> "get_element", frame |-> frame_id,
                           position |-> o["position"].s, details |-> Strip(details.s),
                           mark_as |-> o["mark_as"].s])

\* for i, item in enumerate(actions_raw): ... actions.append(Stage2Action(...))
RECURSIVE Stage2Items(_, _, _)
Stage2Items(items, n, actions) ==
    IF items = <<>> THEN VOk(actions)
    ELSE LET a == Stage2Item(Head(items), n)
         IN IF a.st # "ok" THEN VFail
            ELSE Stage2Items(Tail(items), n, Append(actions, a.v))

\* validate_stage2(data, frames=n)
validate_stage2(data, n) ==
    IF data.j # "dict" THEN VFail
    ELSE LET actions_raw == Get(data.d, "actions")
         IN IF actions_raw.j # "list" THEN VFail
            ELSE Stage2Items(actions_raw.l, n, <<>>)

(***************************************************************************)
(* Orchestrators                                                           *)
(***************************************************************************)
Stage1Attempts == 3
Stage2Attempts == 3
Stage3Attempts == 4

\* range(3) in Stages 1 and 2, range(4) in Stage 3
MaxAttemptsOffByOne(stage) ==
    CASE stage = 1 -> Stage1Attempts + 1
      [] stage = 2 -> Stage2Attempts + 1
      [] OTHER -> Stage3Attempts + 1

MaxAttempts(stage) ==
    CASE stage = 1 -> Stage1Attempts
      [] stage = 2 -> Stage2Attempts
      [] OTHER -> Stage3Attempts

\* the except clause of each stage: (ParseError, ValidationError) in Stages 1
\* and 2; (ParseError, ValidationError, ToolError, Exception) in Stage 3,
\* which is every Exception
Caught(stage, kind) ==
    IF stage = 3 THEN TRUE ELSE kind \in {"ParseError", "ValidationError"}

\* Stage 3 calls the agent inside the try block, Stages 1 and 2 before it
AgentCallInTry(stage) == stage = 3

\* Stage 3 starts every attempt with agent.reset(); Stages 1 and 2 do not
ResetsAtAttemptStart(stage) == stage = 3

\* What the local name vision_tools is bound to when set_agent is called on
\* it: the string joined at stage3.py:47, not the module
VisionToolsBinding == "str"

\* the feedback prompt built from the caught exception
Feedback(exc) == [kind |-> "feedback", of |-> exc]

StagePrompt == [kind |-> "stage", of |-> NoError]

\* an exception raised at a place of the attempt: inside the try block it
\* goes to the except clause, outside it leaves the orchestrator
RaiseInAttempt(exc, inTry) ==
    /\ o_exc' = exc
    /\ o_errs' = Append(o_errs, exc)
    /\ IF inTry
       THEN /\ o_pc' = "handler"
            /\ o_raised' = o_raised
       ELSE /\ o_pc' = "raised"
            /\ o_raised' = exc

\* the statement completes without raising
NoRaise == UNCHANGED <<o_exc, o_errs, o_raised>>

\* for ... in range(n): [agent.reset()] ; response, _ = agent(prompt, ...)
\* The agent appends the user message, requests a completion and appends the
\* assistant message; a failed request leaves only the user message.
CallAgent ==
    /\ UNCHANGED <<s2vars, s3vars, fvars>>
    /\ o_pc = "loop"
    /\ o_attempt < MaxAttempts(o_stage)
    /\ o_attempt' = o_attempt + 1
    /\ LET before == IF ResetsAtAttemptStart(o_stage) THEN 0 ELSE o_hist
           resets == IF ResetsAtAttemptStart(o_stage) THEN o_resets + 1 ELSE o_resets
       IN /\ o_calls' = Append(o_calls, [prompt |-> o_prompt, hist |-> before,
                                          resets |-> resets])
          /\ \/ /\ o_hist' = before + 2
                /\ o_pc' = "parse"
                /\ NoRaise
             \/ /\ o_hist' = before + 1
                /\ RaiseInAttempt(Exc("OtherError", o_attempt + 1),
                                  AgentCallInTry(o_stage))
    /\ o_resets' = 0
    /\ o_lastop' = "call"
    /\ UNCHANGED <<o_stage, o_prompt, o_last, o_validated, o_injected,
                   o_executed>>

\* data = parse_json_from_response(response)
ParseResponse ==
    /\ UNCHANGED <<s2vars, s3vars, fvars>>
    /\ o_pc = "parse"
    /\ \/ /\ o_pc' = "validate"
          /\ NoRaise
       \/ RaiseInAttempt(Exc("ParseError", o_attempt), TRUE)
    /\ UNCHANGED <<o_stage, o_attempt, o_hist, o_prompt, o_calls, o_last,
                   o_resets, o_lastop, o_validated, o_injected, o_executed>>

\* the validator that has written to a frame when it raises
ValidateResponseWriting ==
    /\ UNCHANGED <<s2_i, s2_pc, s2_exc, s3vars, fvars>>
    /\ o_pc = "validate"
    /\ \/ /\ o_pc' = "apply"
          /\ o_validated' = o_validated + 1
          /\ NoRaise
          /\ UNCHANGED frames
       \/ /\ RaiseInAttempt(Exc("ValidationError", o_attempt), TRUE)
          /\ frames' = [frames EXCEPT ![1].description = "partial"]
          /\ UNCHANGED o_validated
    /\ UNCHANGED <<o_stage, o_attempt, o_hist, o_prompt, o_calls, o_last,
                   o_resets, o_lastop, o_injected, o_executed>>

\* validate_stage1 / validate_stage2 / validate_stage3
ValidateResponse ==
    /\ UNCHANGED <<s2vars, s3vars, fvars>>
    /\ o_pc = "validate"
    /\ \/ /\ o_pc' = "apply"
          /\ o_validated' = o_validated + 1
          /\ NoRaise
       \/ /\ RaiseInAttempt(Exc("ValidationError", o_attempt), TRUE)
          /\ UNCHANGED o_validated
    /\ UNCHANGED <<o_stage, o_attempt, o_hist, o_prompt, o_calls, o_last,
                   o_resets, o_lastop, o_injected, o_executed>>

\* Stage 1: the writes to frames[i].description and frames[src].relations
\*          of the result validate_stage1 returned
\* Stage 2: apply_stage2_plan(frames, plan) of the plan validate_stage2
\*          returned; it raises ValidationError when the post-condition
\*          fails, with the frames as its actions left them; a Frame
\*          operation may raise at any action
ApplyResult ==
    /\ UNCHANGED <<s2_i, s2_pc, s2_exc, s3vars, fvars>>
    /\ o_pc = "apply"
    /\ o_stage \in {1, 2}
    /\ IF o_stage = 1
       THEN \E result \in Stage1Results(Len(frames)) :
               /\ frames' = Stage1Write(frames, result)
               /\ o_pc' = "success"
               /\ NoRaise
       ELSE \E plan \in AgentPlans(Len(frames)) :
               \/ LET applied == apply_stage2_plan(frames, plan)
                  IN /\ frames' = applied.frames
                     /\ IF applied.ok
                        THEN o_pc' = "success" /\ NoRaise
                        ELSE RaiseInAttempt(Exc("ValidationError", o_attempt), TRUE)
               \/ \E i \in DOMAIN plan :
                     /\ frames' = apply_stage2_plan(frames, SubSeq(plan, 1, i - 1)).frames
                     /\ RaiseInAttempt(Exc("OtherError", o_attempt), TRUE)
    /\ UNCHANGED <<o_stage, o_attempt, o_hist, o_prompt, o_calls, o_last,
                   o_resets, o_lastop, o_validated, o_injected, o_executed>>

\* Stage 3: agent.reset(); vision_tools.set_agent(agent);
\*          execute_stage3_program(all_frames, program, registry=registry)
InjectAndExecute ==
    /\ UNCHANGED <<s2vars, s3vars, fvars>>
    /\ o_pc = "apply"
    /\ o_stage = 3
    /\ o_hist' = 0
    /\ o_resets' = o_resets + 1
    /\ o_lastop' = "reset"
    /\ IF VisionToolsBinding = "module"
       THEN /\ o_injected' = TRUE
            /\ o_executed' = o_executed + 1
            /\ \/ /\ o_pc' = "success"
                  /\ NoRaise
               \/ \E k \in {"ToolError", "OtherError"} :
                     RaiseInAttempt(Exc(k, o_attempt), TRUE)
       ELSE /\ RaiseInAttempt(Exc("AttributeError", o_attempt), TRUE)
            /\ UNCHANGED <<o_injected, o_executed>>
    /\ UNCHANGED <<o_stage, o_attempt, o_prompt, o_calls, o_last,
                   o_validated>>

\* the return that leaves the history of the agent in place
ReturnWithoutReset ==
    /\ UNCHANGED <<s2vars, s3vars, fvars>>
    /\ o_pc = "success"
    /\ o_pc' = "returned"
    /\ UNCHANGED <<o_stage, o_attempt, o_hist, o_resets, o_lastop, o_prompt, o_calls,
                   o_exc, o_last, o_errs, o_raised, o_validated, o_injected,
                   o_executed>>

\* agent.reset(); return
ReturnSuccess ==
    /\ UNCHANGED <<s2vars, s3vars, fvars>>
    /\ o_pc = "success"
    /\ o_hist' = 0
    /\ o_resets' = o_resets + 1
    /\ o_lastop' = "reset"
    /\ o_pc' = "returned"
    /\ UNCHANGED <<o_stage, o_attempt, o_prompt, o_calls, o_exc, o_last, o_errs,
                   o_raised, o_validated, o_injected, o_executed>>

\* the first-error variant of the except body: keeps the error already held
CaptureFirst(exc) ==
    /\ o_last' = IF o_last = NoError THEN exc ELSE o_last
    /\ o_prompt' = Feedback(exc)

\* an except body whose feedback names the error it held before
CaptureStale(exc) ==
    /\ o_last' = exc
    /\ o_prompt' = Feedback(IF o_last = NoError THEN exc ELSE o_last)

\* except (...) as exc: last_error = exc; prompt = <feedback with exc>
Capture(exc) ==
    /\ o_last' = exc
    /\ o_prompt' = Feedback(exc)

\* the except clause: a caught kind is captured and the loop goes on, any
\* other exception leaves the orchestrator
HandleError ==
    /\ UNCHANGED <<s2vars, s3vars, fvars>>
    /\ o_pc = "handler"
    /\ IF Caught(o_stage, o_exc.kind)
       THEN /\ Capture(o_exc)
            /\ o_pc' = "loop"
            /\ UNCHANGED o_raised
       ELSE /\ o_raised' = o_exc
            /\ o_pc' = "raised"
            /\ UNCHANGED <<o_last, o_prompt>>
    /\ UNCHANGED <<o_stage, o_attempt, o_hist, o_calls, o_exc, o_errs, o_resets,
                   o_lastop, o_validated, o_injected, o_executed>>

\* after the loop: raise last_error, the history of the agent left in place
RaiseLastWithoutReset ==
    /\ UNCHANGED <<s2vars, s3vars, fvars>>
    /\ o_pc = "loop"
    /\ o_attempt >= MaxAttempts(o_stage)
    /\ o_raised' = IF o_last = NoError THEN Exc("RuntimeError", 0) ELSE o_last
    /\ o_pc' = "exhausted"
    /\ UNCHANGED <<o_stage, o_attempt, o_hist, o_resets, o_lastop, o_prompt, o_calls,
                   o_exc, o_last, o_errs, o_validated, o_injected, o_executed>>

\* after the loop: agent.reset(); raise last_error
RaiseLast ==
    /\ UNCHANGED <<s2vars, s3vars, fvars>>
    /\ o_pc = "loop"
    /\ o_attempt >= MaxAttempts(o_stage)
    /\ o_hist' = 0
    /\ o_resets' = o_resets + 1
    /\ o_lastop' = "reset"
    /\ o_raised' = IF o_last = NoError THEN Exc("RuntimeError", 0) ELSE o_last
    /\ o_pc' = "exhausted"
    /\ UNCHANGED <<o_stage, o_attempt, o_prompt, o_calls, o_exc, o_last, o_errs,
                   o_validated, o_injected, o_executed>>

OrchNext ==
    \/ CallAgent
    \/ ParseResponse
    \/ ValidateResponse
    \/ ApplyResult
    \/ InjectAndExecute
    \/ ReturnSuccess
    \/ HandleError
    \/ RaiseLast

OrchDone == o_pc \in {"returned", "raised", "exhausted"}

\* One orchestrator call: the stage and the agent's history are the inputs;
\* the applier and the interpreter are at rest.
OrchInit ==
    /\ o_stage \in 1..3
    /\ o_pc = "loop"
    /\ o_attempt = 0
    /\ o_hist \in {0, 2}  \* a fresh agent, or one that holds an earlier exchange
    /\ o_prompt = StagePrompt
    /\ o_calls = <<>>
    /\ o_exc = NoError
    /\ o_last = NoError
    /\ o_errs = <<>>
    /\ o_raised = NoError
    /\ o_resets = 0
    /\ o_lastop = "none"
    /\ o_validated = 0
    /\ o_injected = FALSE
    /\ o_executed = 0
    /\ frames \in {Repeat(CaptchaFrame, n) : n \in 1..MaxFrames}
    /\ s2_i = 0
    /\ s2_pc = "idle"
    /\ s2_exc = NoError
    /\ registry = <<>>
    /\ program = <<>>
    /\ env = <<>>
    /\ s3_stack = <<>>
    /\ s3_pc = "idle"
    /\ s3_exc = NoError
    /\ s3_ev = <<>>
    /\ s3_step = [j |-> "null"]
    /\ s3_run = [n |-> 0, left |-> <<>>, failed |-> FALSE]
    /\ f_fn = "none"
    /\ f_in = [j |-> "null"]
    /\ f_n = 0
    /\ f_out = [st |-> "idle"]

SpecOrch == OrchInit /\ [][OrchNext]_vars

\* the orchestrators are sequential code: a step that can be taken is taken
SpecOrchFair == SpecOrch /\ WF_vars(OrchNext)
(***************************************************************************)
(* apply_stage2_plan as a state machine                                    *)
(***************************************************************************)
S2Init ==
    /\ frames \in UNION {[1..n -> {BlankFrame} \cup
                                  {[BlankFrame EXCEPT !.subframes =
                                       <<[BlankFrame EXCEPT !.interactables = <<t>>]>>] :
                                     t \in ElementTags}]
                         : n \in 1..MaxFrames}
    /\ s2_i = 0
    /\ s2_pc = "apply"
    /\ s2_exc = NoError
    /\ o_stage = 0
    /\ o_pc = "idle"
    /\ o_attempt = 0
    /\ o_hist = 0
    /\ o_prompt = StagePrompt
    /\ o_calls = <<>>
    /\ o_exc = NoError
    /\ o_last = NoError
    /\ o_errs = <<>>
    /\ o_raised = NoError
    /\ o_resets = 0
    /\ o_lastop = "none"
    /\ o_validated = 0
    /\ o_injected = FALSE
    /\ o_executed = 0
    /\ registry = <<>>
    /\ program = <<>>
    /\ env = <<>>
    /\ s3_stack = <<>>
    /\ s3_pc = "idle"
    /\ s3_exc = NoError
    /\ s3_ev = <<>>
    /\ s3_step = [j |-> "null"]
    /\ s3_run = [n |-> 0, left |-> <<>>, failed |-> FALSE]
    /\ f_fn = "none"
    /\ f_in = [j |-> "null"]
    /\ f_n = 0
    /\ f_out = [st |-> "idle"]

\* for action in plan.actions: one iteration, for the next action of the plan
S2Apply ==
    /\ UNCHANGED <<ovars, s3vars, fvars>>
    /\ s2_pc = "apply"
    /\ s2_i < MaxPlan
    /\ \E action \in Stage2Actions(Len(frames)) :
          IF KnownAction(action)
          THEN /\ frames' = [frames EXCEPT ![action.frame + 1] = ApplyAction(@, action)]
               /\ s2_i' = s2_i + 1
               /\ UNCHANGED <<s2_pc, s2_exc>>
          ELSE /\ s2_pc' = "raised"
               /\ s2_exc' = Exc("ValidationError", s2_i + 1)
               /\ UNCHANGED <<frames, s2_i>>

\* the plan is exhausted: walk the tree and enforce the post-condition
S2Check ==
    /\ UNCHANGED <<ovars, s3vars, fvars>>
    /\ s2_pc = "apply"
    /\ IF PostCondition(Collect(frames, {}, 0))
       THEN /\ s2_pc' = "returned"
            /\ UNCHANGED s2_exc
       ELSE /\ s2_pc' = "raised"
            /\ s2_exc' = Exc("ValidationError", 0)
    /\ UNCHANGED <<frames, s2_i>>

S2Next ==
    \/ S2Apply
    \/ S2Check

SpecS2 == S2Init /\ [][S2Next]_vars

(***************************************************************************)
(* The runtime objects of the model.  Their classes live outside the       *)
(* runtime package; the interpreter sees them only through attributes.     *)
(***************************************************************************)
MaxPoints == 2

FrameObj(i) ==
    Obj("Frame", <<i>>,
        {"image", "description", "interactable", "interactables", "subframes",
         "set_frame_as", "split", "grid", "get_element", "get_interactable",
         "get_keypoint", "show_keypoints", "_cache"})
ElementObj(i, k) == Obj("Element", <<i, k>>, {"image", "interactable", "set_element_as"})
PointObj(k) == Obj("Point", <<k>>, {"x", "y", "get_neighbour", "show_neighbours"})

\* a value of a class outside the allowlist that nevertheless has get_neighbour
TracerObj(k) == Obj("Tracer", <<k>>, {"get_neighbour", "image"})

ChoiceObj == Obj("SelectChoice", <<0>>, {"select", "image", "release"})

\* What a method called by an expression returns or raises:
\*   Frame.get_interactable(id)  as DummyFrame: interactables[id], or the
\*                               frame itself when it has no interactables
\*   Frame.get_keypoint(id), <point>.get_neighbour(id)  a Point, IndexError
\*                               beyond the points there are
InvokeInExpr(obj, method, id, fs) ==
    CASE method = "get_interactable" ->
            LET n == Len(fs[obj.id[1] + 1].interactables)
            IN IF n = 0 THEN [st |-> "ok", v |-> obj]
               ELSE IF id < n THEN [st |-> "ok", v |-> ElementObj(obj.id[1], id)]
               ELSE [st |-> "IndexError", v |-> JNull]
      [] OTHER ->
            IF id < MaxPoints
            THEN [st |-> "ok", v |-> IF obj.cls = "Tracer" THEN TracerObj(id)
                                     ELSE PointObj(id)]
            ELSE [st |-> "IndexError", v |-> JNull]

(***************************************************************************)
(* _eval_expr.  The result is [st, v, ev]: st is "ok" or the kind of the   *)
(* exception raised, v the value, ev the attribute resolutions and method  *)
(* invocations made on runtime values, in order:                           *)
(*   <<"hasattr", class, name>>, <<"getattr", class, name>>,               *)
(*   <<"invoke", class, method>>                                           *)
(***************************************************************************)
Ok(v, ev) == [st |-> "ok", v |-> v, ev |-> ev]
Raised(kind, ev) == [st |-> kind, v |-> JNull, ev |-> ev]

ValidFrameId(x, fs) == PyIsInt(x) /\ 0 <= PyInt(x) /\ PyInt(x) < Len(fs)

\* [getattr(item, attr) for item in items]
RECURSIVE MapGetattr(_, _, _, _)
MapGetattr(items, attr, acc, ev) ==
    IF items = <<>> THEN Ok(JL(acc), ev)
    ELSE LET item == Head(items)
             ev1 == Append(ev, <<"getattr", _class_name(item), attr>>)
         IN IF HasAttr(item, attr)
            THEN MapGetattr(Tail(items), attr, Append(acc, AttrValue(item, attr)), ev1)
            ELSE Raised("AttributeError", ev1)

\* sum(value) over a list: numbers add up, anything else is a TypeError
RECURSIVE PySum(_, _)
PySum(items, acc) ==
    IF items = <<>> THEN [st |-> "ok", v |-> JI(acc)]
    ELSE IF PyIsInt(Head(items)) THEN PySum(Tail(items), acc + PyInt(Head(items)))
    ELSE [st |-> "TypeError", v |-> JNull]

\* the items kept by a boolean mask, or the first position whose flag is no bool
RECURSIVE FilterMask(_, _, _)
FilterMask(items, mask, acc) ==
    IF items = <<>> THEN [st |-> "ok", v |-> JL(acc)]
    ELSE IF Head(mask).j # "bool" THEN [st |-> "ToolError", v |-> JNull]
    ELSE FilterMask(Tail(items), Tail(mask),
                    IF Head(mask).b THEN Append(acc, Head(items)) ELSE acc)

RECURSIVE _eval_expr(_, _, _)
RECURSIVE EvalList(_, _, _, _, _)

\* [_eval_expr(x, ...) for x in expr]
EvalList(items, e, fs, acc, ev) ==
    IF items = <<>> THEN Ok(JL(acc), ev)
    ELSE LET r == _eval_expr(Head(items), e, fs)
         IN IF r.st # "ok" THEN Raised(r.st, ev \o r.ev)
            ELSE EvalList(Tail(items), e, fs, Append(acc, r.v), ev \o r.ev)

_eval_expr(expr, e, fs) ==
    IF expr.j \in {"null", "str", "int", "float", "bool"} THEN Ok(expr, <<>>)
    ELSE IF expr.j = "list" THEN EvalList(expr.l, e, fs, <<>>, <<>>)
    ELSE IF expr.j # "dict" THEN Raised("ToolError", <<>>)
    ELSE LET d == expr.d
             ref == Get(d, "ref")
             op == Get(d, "op")
         IN
         IF "var" \in DOMAIN d THEN
            IF ~PyIsStr(d["var"]) THEN Raised("ToolError", <<>>)
            ELSE IF d["var"].s \notin DOMAIN e THEN Raised("ToolError", <<>>)
            ELSE Ok(e[d["var"].s], <<>>)
         ELSE IF ref = JS("frame") THEN
            IF ~ValidFrameId(Get(d, "id"), fs) THEN Raised("ToolError", <<>>)
            ELSE Ok(FrameObj(PyInt(d["id"])), <<>>)
         ELSE IF ref \in {JS("interactable"), JS("keypoint")} THEN
            LET id == Get(d, "id")
                method == IF ref = JS("interactable") THEN "get_interactable"
                          ELSE "get_keypoint"
            IN IF ~ValidFrameId(Get(d, "frame"), fs) THEN Raised("ToolError", <<>>)
               ELSE IF ~PyIsInt(id) \/ PyInt(id) < 0 THEN Raised("ToolError", <<>>)
               ELSE LET obj == FrameObj(PyInt(d["frame"]))
                        r == InvokeInExpr(obj, method, PyInt(id), fs)
                    IN [st |-> r.st, v |-> r.v,
                        ev |-> <<<<"invoke", _class_name(obj), method>>>>]
         ELSE IF ref = JS("neighbour") THEN
            LET p == _eval_expr(Get(d, "point"), e, fs)
                id == Get(d, "id")
            IN IF p.st # "ok" THEN p
               ELSE LET ev1 == Append(p.ev, <<"hasattr", _class_name(p.v), "get_neighbour">>)
                    IN IF ~HasAttr(p.v, "get_neighbour") THEN Raised("ToolError", ev1)
                       ELSE IF ~PyIsInt(id) \/ PyInt(id) < 0 THEN Raised("ToolError", ev1)
                       ELSE LET r == InvokeInExpr(p.v, "get_neighbour", PyInt(id), fs)
                            IN [st |-> r.st, v |-> r.v,
                                ev |-> Append(ev1, <<"invoke", _class_name(p.v),
                                                     "get_neighbour">>)]
         ELSE IF ref = JS("attr") THEN
            LET o == _eval_expr(Get(d, "obj"), e, fs)
                name == Get(d, "name")
            IN IF o.st # "ok" THEN o
               ELSE IF ~PyIsStr(name) THEN Raised("ToolError", o.ev)
               ELSE IF StartsWithDunder(name.s) THEN Raised("ToolError", o.ev)
               ELSE LET ev1 == Append(o.ev, <<"getattr", _class_name(o.v), name.s>>)
                    IN IF HasAttr(o.v, name.s) THEN Ok(AttrValue(o.v, name.s), ev1)
                       ELSE Raised("AttributeError", ev1)
         ELSE IF ref = JS("index") THEN
            LET lst == _eval_expr(Get(d, "list"), e, fs)
            IN IF lst.st # "ok" THEN lst
               ELSE LET idx == _eval_expr(Get(d, "index"), e, fs)
                        ev1 == lst.ev \o idx.ev
                    IN IF idx.st # "ok" THEN Raised(idx.st, ev1)
                       ELSE IF ~PyIsInt(idx.v) THEN Raised("ToolError", ev1)
                       ELSE IF ~PyIsSequence(lst.v) THEN Raised("TypeError", ev1)
                       ELSE LET items == PyItems(lst.v)
                                n == Len(items)
                                i == PyInt(idx.v)
                            IN IF 0 <= i /\ i < n THEN Ok(items[i + 1], ev1)
                               ELSE IF -n <= i /\ i < 0 THEN Ok(items[n + i + 1], ev1)
                               ELSE Raised("IndexError", ev1)
         ELSE IF op = JS("map_attr") THEN
            LET items == _eval_expr(Get(d, "list"), e, fs)
                attr == Get(d, "attr")
            IN IF items.st # "ok" THEN items
               ELSE IF ~PyIsStr(attr) THEN Raised("ToolError", items.ev)
               ELSE IF StartsWithDunder(attr.s) THEN Raised("ToolError", items.ev)
               ELSE IF ~PyIsSequence(items.v) THEN Raised("TypeError", items.ev)
               ELSE MapGetattr(PyItems(items.v), attr.s, <<>>, items.ev)
         ELSE IF op = JS("filter_mask") THEN
            LET items == _eval_expr(Get(d, "items"), e, fs)
            IN IF items.st # "ok" THEN items
               ELSE LET mask == _eval_expr(Get(d, "mask"), e, fs)
                        ev1 == items.ev \o mask.ev
                    IN IF mask.st # "ok" THEN Raised(mask.st, ev1)
                       ELSE IF items.v.j # "list" \/ mask.v.j # "list"
                            THEN Raised("ToolError", ev1)
                       ELSE IF Len(items.v.l) # Len(mask.v.l) THEN Raised("ToolError", ev1)
                       ELSE LET r == FilterMask(items.v.l, mask.v.l, <<>>)
                            IN [st |-> r.st, v |-> r.v, ev |-> ev1]
         ELSE IF op = JS("len") THEN
            LET value == _eval_expr(Get(d, "value"), e, fs)
            IN IF value.st # "ok" THEN value
               ELSE IF PyIsSequence(value.v) THEN Ok(JI(Len(PyItems(value.v))), value.ev)
               ELSE Raised("TypeError", value.ev)
         ELSE IF op = JS("sum") THEN
            LET value == _eval_expr(Get(d, "value"), e, fs)
            IN IF value.st # "ok" THEN value
               ELSE IF ~PyIsSequence(value.v) THEN Raised("TypeError", value.ev)
               ELSE LET r == PySum(PyItems(value.v), 0)
                    IN [st |-> r.st, v |-> r.v, ev |-> value.ev]
         ELSE Raised("ToolError", <<>>)

(***************************************************************************)
(* Programs, registries and frames the interpreter is run on               *)
(***************************************************************************)
MaxProgLen == 2

\* one run_steps invocation
Block(kind, steps, items, var) ==
    [kind |-> kind, steps |-> steps, pc |-> 1, items |-> items, idx |-> 1, var |-> var]

Var(name) == JD("var" :> JS(name))
FrameRef(i) == JD(("ref" :> JS("frame")) @@ ("id" :> JI(i)))
OfFrame(ref, frame, id) ==
    JD(("ref" :> JS(ref)) @@ ("frame" :> JI(frame)) @@ ("id" :> JI(id)))
Attr(obj, name) == JD(("ref" :> JS("attr")) @@ ("obj" :> obj) @@ ("name" :> JS(name)))
MapAttr(list, attr) ==
    JD(("op" :> JS("map_attr")) @@ ("list" :> list) @@ ("attr" :> JS(attr)))

CallStep(tool, args, save_as) ==
    JD(("op" :> JS("call")) @@ ("tool" :> tool) @@ ("args" :> args)
       @@ ("save_as" :> save_as))
CallMethodStep(target, method, args, save_as) ==
    JD(("op" :> JS("call_method")) @@ ("target" :> target) @@ ("method" :> JS(method))
       @@ ("args" :> args) @@ ("save_as" :> save_as))
AssignStep(name, value) ==
    JD(("op" :> JS("assign")) @@ ("var" :> JS(name)) @@ ("value" :> value))
ForeachStep(name, in, do) ==
    JD(("op" :> JS("foreach")) @@ ("var" :> JS(name)) @@ ("in" :> in) @@ ("do" :> JL(do)))
IfStep(cond, then, else) ==
    JD(("op" :> JS("if")) @@ ("cond" :> cond) @@ ("then" :> JL(then))
       @@ ("else" :> JL(else)))
BreakStep == JD("op" :> JS("break"))

\* The steps programs are made of.  "echo" and "mk" are tools a registry may
\* hold, "eval" is in none; p holds whatever "mk" returned.  The loop over x
\* holds a loop that breaks at its first element, and rebinds x to [x] after
\* it; the index step reads [1][len(x)].  One loop rebinds its own variable,
\* one runs over the empty list; one if has no else, one an else and one a
\* then that is no list; two call_method steps have args that is no object
\* and an empty save_as.
StepPool ==
    { CallStep(JS("echo"), JD("value" :> JI(1)), JS("x")),
      CallStep(JS("mk"), JD(<<>>), JS("p")),
      CallStep(JS("eval"), JD("value" :> OfFrame("keypoint", 0, 0)), JS("x")),
      CallStep(JI(1), JD(<<>>), JNull),
      CallStep(JS("echo"), JL(<<>>), JNull),
      CallStep(JS("echo"), JD("value" :> Var("p")), JS("")),
      CallStep(JS("echo"), JD("value" :> JI(123)), JS("out")),
      CallStep(JS("echo"), JD("value" :> Var("out")), JS("out2")),
      CallMethodStep(Var("p"), "get_neighbour", JD("id" :> JI(0)), JS("q")),
      CallMethodStep(Var("p"), "__class__", JD(<<>>), JS("q")),
      CallMethodStep(Var("p"), "select", JD(<<>>), JNull),
      CallMethodStep(FrameRef(0), "split",
                     JD("rows" :> OfFrame("keypoint", 0, 0)), JNull),
      CallMethodStep(FrameRef(0), "get_keypoint", JD("id" :> JI(1)), JS("p")),
      AssignStep("x", Attr(Var("p"), "image")),
      AssignStep("x", Attr(Var("p"), "__class__")),
      AssignStep("x", MapAttr(JL(<<FrameRef(0), Var("p")>>), "__dict__")),
      AssignStep("x", MapAttr(JL(<<FrameRef(0), FrameRef(1)>>), "image")),
      AssignStep("q", JD(("ref" :> JS("neighbour")) @@ ("point" :> Var("p"))
                          @@ ("id" :> JI(0)))),
      AssignStep("p", OfFrame("interactable", 1, 0)),
      AssignStep("p", OfFrame("keypoint", 0, MaxPoints - 1)),
      ForeachStep("v", JL(<<JI(1), JI(0)>>),
                  <<IfStep(Var("v"), <<AssignStep("x", Var("v"))>>, <<BreakStep>>)>>),
      ForeachStep("w", Var("x"),
                  <<ForeachStep("v", JL(<<JI(0), JI(1)>>),
                                <<IfStep(Var("v"), <<>>, <<BreakStep>>),
                                  AssignStep("q", Var("v"))>>),
                    AssignStep("x", JL(<<Var("x")>>))>>),
      AssignStep("x", JD(("ref" :> JS("index")) @@ ("list" :> JL(<<JI(1)>>))
                         @@ ("index" :> JD(("op" :> JS("len"))
                                           @@ ("value" :> Var("x")))))),
      ForeachStep("v", JL(<<JI(1), JI(2)>>), <<AssignStep("v", JI(5))>>),
      ForeachStep("v", JL(<<>>), <<AssignStep("x", JI(1))>>),
      JD(("op" :> JS("if")) @@ ("cond" :> JI(0))
         @@ ("then" :> JL(<<AssignStep("x", JI(1))>>))),
      JD(("op" :> JS("if")) @@ ("cond" :> JI(1))
         @@ ("then" :> JL(<<AssignStep("x", JI(1))>>)) @@ ("else" :> JS("skip"))),
      JD(("op" :> JS("if")) @@ ("cond" :> JI(0)) @@ ("then" :> JNull)
         @@ ("else" :> JL(<<AssignStep("x", JI(1))>>))),
      JD(("op" :> JS("call_method")) @@ ("target" :> FrameRef(0))
         @@ ("method" :> JS("get_keypoint")) @@ ("args" :> JL(<<>>))),
      CallMethodStep(FrameRef(0), "get_keypoint", JD("id" :> JI(1)), JS("")),
      IfStep(Var("x"), <<BreakStep>>, <<>>),
      BreakStep,
      JD("op" :> JS("exec")) }

Programs == UNION {[1..n -> StepPool] : n \in 1..MaxProgLen}

\* the programs of the attempts that follow the first
RetryPrograms == {p \in Programs : Len(p) = 1}

\* the frames Stage 2 left: one untouched, one with a tagged element
Stage3Frames == <<BlankFrame, [BlankFrame EXCEPT !.interactables = <<"SWAPPABLE">>]>>

\* execute_stage3_program(frames, program, registry=registry): env = {},
\* run_steps(program.steps).  The registry holds the callable registered
\* under each name.
S3Init ==
    /\ registry \in { ("echo" :> "echo") @@ ("mk" :> "mk"), ("echo" :> "echo") }
    /\ program \in Programs
    /\ frames = Stage3Frames
    /\ env = <<>>
    /\ s3_stack = <<Block("top", program, <<>>, "")>>
    /\ s3_pc = "run"
    /\ s3_exc = NoError
    /\ s3_ev = <<>>
    /\ s3_step = [j |-> "null"]
    /\ s3_run = [n |-> 1, left |-> <<>>, failed |-> FALSE]
    /\ f_fn = "none"
    /\ f_in = [j |-> "null"]
    /\ f_n = 0
    /\ f_out = [st |-> "idle"]
    /\ s2_i = 0
    /\ s2_pc = "idle"
    /\ s2_exc = NoError
    /\ o_stage = 0
    /\ o_pc = "idle"
    /\ o_attempt = 0
    /\ o_hist = 0
    /\ o_prompt = StagePrompt
    /\ o_calls = <<>>
    /\ o_exc = NoError
    /\ o_last = NoError
    /\ o_errs = <<>>
    /\ o_raised = NoError
    /\ o_resets = 0
    /\ o_lastop = "none"
    /\ o_validated = 0
    /\ o_injected = FALSE
    /\ o_executed = 0

(***************************************************************************)
(* Stage-3 statement runner: execute_stage3_program / run_steps            *)
(*                                                                         *)
(* s3_stack holds the active run_steps invocations: the steps, the index   *)
(* of the next step, and for a foreach body the list iterated, the         *)
(* position in it and the loop variable.  s3_ev lists what the step        *)
(* executed last did: the events of its expressions and                    *)
(*   <<"args", op, "">>                 argument evaluation begins         *)
(*   <<"lookup", class, method>>        getattr(target, method)            *)
(*   <<"tool", name, callable>>         the registered callable is called  *)
(*   <<"invoke_method", class, method>> the bound method is called         *)
(***************************************************************************)
\* the lookup that resolves any name to a callable of the host
RegistryGetAny(reg, name) ==
    IF name \in DOMAIN reg THEN [found |-> TRUE, fn |-> reg[name]]
    ELSE [found |-> TRUE, fn |-> "host"]

\* ToolRegistry.get(name): the spec registered under the name, or None
RegistryGet(reg, name) ==
    IF name \in DOMAIN reg THEN [found |-> TRUE, fn |-> reg[name]]
    ELSE [found |-> FALSE, fn |-> "None"]

\* the check that lets every method through
_ensure_allowed_method_off(obj, method) == TRUE

\* _ensure_allowed_method(obj, method): TRUE when it does not raise
_ensure_allowed_method(obj, method) == method \in _ALLOWED_METHODS(_class_name(obj))

\* {k: _eval_expr(v, ...) for k, v in args_obj.items()}: the values by key,
\* or the first exception; the keys are taken in one fixed order
RECURSIVE EvalArgs(_, _, _, _, _)
EvalArgs(d, e, fs, acc, ev) ==
    IF DOMAIN d = DOMAIN acc THEN [st |-> "ok", v |-> acc, ev |-> ev]
    ELSE LET k == CHOOSE x \in DOMAIN d \ DOMAIN acc : TRUE
             r == _eval_expr(d[k], e, fs)
         IN IF r.st # "ok" THEN [st |-> r.st, v |-> acc, ev |-> ev \o r.ev]
            ELSE EvalArgs(d, e, fs, Bind(acc, k, r.v), ev \o r.ev)

\* The outcomes of calling a registered callable with the evaluated
\* arguments: echo(value=...) returns its argument and rejects any other
\* keywords; every other tool is opaque and returns or raises
CallOutcomes(fn, args) ==
    IF fn = "echo"
    THEN IF DOMAIN args = {"value"} THEN {[st |-> "ok", v |-> args["value"]]}
         ELSE {[st |-> "TypeError", v |-> JNull]}
    ELSE {[st |-> "ok", v |-> r] : r \in {JNull, PointObj(0), TracerObj(0), ChoiceObj}}
         \cup {[st |-> "OtherError", v |-> JNull]}

\* The outcomes of calling a bound method with the evaluated arguments: the
\* lookups by id answer as they do for an expression (any other keywords
\* are a TypeError); the other methods act on the page and return None or
\* raise
MethodOutcomes(target, method, args, fs) ==
    IF method \in {"get_interactable", "get_keypoint", "get_neighbour"}
    THEN IF DOMAIN args = {"id"} /\ PyIsInt(args["id"]) /\ PyInt(args["id"]) >= 0
         THEN {InvokeInExpr(target, method, PyInt(args["id"]), fs)}
         ELSE {[st |-> "TypeError", v |-> JNull]}
    ELSE {[st |-> "ok", v |-> JNull], [st |-> "OtherError", v |-> JNull]}

Top == s3_stack[Len(s3_stack)]

\* run_steps is at a step of the innermost block
AtStep ==
    /\ s3_pc = "run"
    /\ s3_stack # <<>>
    /\ Top.pc <= Len(Top.steps)

Step == Top.steps[Top.pc]

\* step.get("op") of a step that is an object
OpIs(name) == Step.j = "dict" /\ Get(Step.d, "op") = JS(name)

\* the stack with the innermost block moved past its current step
Advanced == [s3_stack EXCEPT ![Len(s3_stack)].pc = @ + 1]

\* a raise after an evaluation that emptied the environment
S3RaiseClearingEnv(kind, ev) ==
    /\ s3_pc' = "raised"
    /\ s3_exc' = Exc(kind, 0)
    /\ s3_ev' = ev
    /\ s3_stack' = <<>>
    /\ env' = <<>>

\* the step raises: the exception leaves execute_stage3_program
S3Raise(kind, ev) ==
    /\ s3_pc' = "raised"
    /\ s3_exc' = Exc(kind, 0)
    /\ s3_ev' = ev
    /\ s3_stack' = <<>>
    /\ UNCHANGED env

\* the callable raised and nothing wraps its exception
ToolFailedUnwrapped(what, ev) ==
    /\ s3_pc' = "raised"
    /\ s3_exc' = Exc("OtherError", 0)
    /\ s3_ev' = ev
    /\ s3_stack' = <<>>
    /\ UNCHANGED env

\* except Exception as exc: raise ToolError(f"{what}: {exc}") from exc, where
\* what is "Tool call failed: <tool>" or "Method call failed: <Class>.<method>"
ToolFailed(what, ev) ==
    /\ s3_pc' = "raised"
    /\ s3_exc' = [kind |-> "ToolError", at |-> 0, msg |-> what]
    /\ s3_ev' = ev
    /\ s3_stack' = <<>>
    /\ UNCHANGED env

\* the call came back and its result is dropped
SaveResultDropped(save_as, result, ev) ==
    /\ s3_stack' = Advanced
    /\ s3_ev' = ev
    /\ UNCHANGED <<env, s3_pc, s3_exc>>

\* save_as = step.get("save_as"), after the call came back with `result`
SaveResult(save_as, result, ev) ==
    IF save_as = JNull
    THEN /\ s3_stack' = Advanced
         /\ s3_ev' = ev
         /\ UNCHANGED <<env, s3_pc, s3_exc>>
    ELSE IF ~PyIsStr(save_as) \/ save_as.s = ""
    THEN S3Raise("ToolError", ev)
    ELSE /\ env' = Bind(env, save_as.s, result)
         /\ s3_stack' = Advanced
         /\ s3_ev' = ev
         /\ UNCHANGED <<s3_pc, s3_exc>>

\* op == "call"
S3Call ==
    /\ UNCHANGED <<ovars, s2vars, fvars, s3_run, registry, program>>
    /\ AtStep
    /\ OpIs("call")
    /\ s3_step' = Step
    /\ LET d == Step.d
           tool_name == Get(d, "tool")
           args_obj == GetD(d, "args", JD(EmptyDict))
       IN IF ~PyIsStr(tool_name) THEN S3Raise("ToolError", <<>>)
          ELSE LET spec == RegistryGet(registry, tool_name.s)
               IN IF ~spec.found THEN S3Raise("ToolError", <<>>)
                  ELSE IF args_obj.j # "dict" THEN S3Raise("ToolError", <<>>)
                  ELSE LET args == EvalArgs(args_obj.d, env, frames, EmptyDict,
                                            <<<<"args", "call", "">>>>)
                       IN IF args.st # "ok" THEN S3Raise(args.st, args.ev)
                          ELSE \E out \in CallOutcomes(spec.fn, args.v) :
                                 LET ev == Append(args.ev, <<"tool", tool_name.s, spec.fn>>)
                                 IN IF out.st # "ok"
                                    THEN ToolFailed("Tool call failed: " \o tool_name.s, ev)
                                    ELSE SaveResult(Get(d, "save_as"), out.v, ev)

\* op == "call_method"
S3CallMethod ==
    /\ UNCHANGED <<ovars, s2vars, fvars, s3_run, registry, program>>
    /\ AtStep
    /\ OpIs("call_method")
    /\ s3_step' = Step
    /\ LET d == Step.d
           target == _eval_expr(Get(d, "target"), env, frames)
           method == Get(d, "method")
           args_obj == GetD(d, "args", JD(EmptyDict))
       IN IF target.st # "ok" THEN S3Raise(target.st, target.ev)
          ELSE LET cls == _class_name(target.v)
                   ev0 == Append(target.ev, <<"target", cls, "">>)
               IN
               IF ~PyIsStr(method) \/ method.s = "" THEN S3Raise("ToolError", ev0)
               ELSE IF ~_ensure_allowed_method(target.v, method.s)
               THEN S3Raise("ToolError", ev0)
               ELSE LET ev1 == Append(ev0, <<"lookup", cls, method.s>>)
                    IN
                    IF ~HasAttr(target.v, method.s) THEN S3Raise("AttributeError", ev1)
                    ELSE IF args_obj.j # "dict" THEN S3Raise("ToolError", ev1)
                    ELSE LET args == EvalArgs(args_obj.d, env, frames, EmptyDict,
                                              Append(ev1, <<"args", "call_method", "">>))
                         IN IF args.st # "ok" THEN S3Raise(args.st, args.ev)
                            ELSE \E out \in MethodOutcomes(target.v, method.s, args.v, frames) :
                                   LET ev == Append(args.ev,
                                                    <<"invoke_method", cls, method.s>>)
                                   IN IF out.st # "ok"
                                      THEN ToolFailed("Method call failed: " \o cls
                                                      \o "." \o method.s, ev)
                                      ELSE SaveResult(Get(d, "save_as"), out.v, ev)

\* op == "assign"
S3Assign ==
    /\ UNCHANGED <<ovars, s2vars, fvars, s3_run, registry, program>>
    /\ AtStep
    /\ OpIs("assign")
    /\ s3_step' = Step
    /\ LET name == Get(Step.d, "var")
       IN IF ~PyIsStr(name) \/ name.s = "" THEN S3Raise("ToolError", <<>>)
          ELSE LET r == _eval_expr(Get(Step.d, "value"), env, frames)
               IN IF r.st # "ok" THEN S3Raise(r.st, r.ev)
                  ELSE /\ env' = Bind(env, name.s, r.v)
                       /\ s3_stack' = Advanced
                       /\ s3_ev' = r.ev
                       /\ UNCHANGED <<s3_pc, s3_exc>>

\* op == "foreach": the list is evaluated once; a non-empty list starts the
\* body with the loop variable bound to its first element
S3Foreach ==
    /\ UNCHANGED <<ovars, s2vars, fvars, s3_run, registry, program>>
    /\ AtStep
    /\ OpIs("foreach")
    /\ s3_step' = Step
    /\ LET var == Get(Step.d, "var")
           body == GetD(Step.d, "do", JL(<<>>))
       IN IF ~PyIsStr(var) \/ var.s = "" THEN S3Raise("ToolError", <<>>)
          ELSE LET iterable == _eval_expr(Get(Step.d, "in"), env, frames)
               IN IF iterable.st # "ok" THEN S3Raise(iterable.st, iterable.ev)
                  ELSE IF iterable.v.j # "list" THEN S3Raise("ToolError", iterable.ev)
                  ELSE IF body.j # "list" THEN S3Raise("ToolError", iterable.ev)
                  ELSE /\ s3_ev' = iterable.ev
                       /\ UNCHANGED <<s3_pc, s3_exc>>
                       /\ IF iterable.v.l = <<>>
                          THEN /\ s3_stack' = Advanced
                               /\ UNCHANGED env
                          ELSE /\ s3_stack' = Append(Advanced,
                                       Block("foreach", body.l, iterable.v.l, var.s))
                               /\ env' = Bind(env, var.s, iterable.v.l[1])

\* op == "if", with a branch that is looked at only when it is the one to run
S3IfLazy ==
    /\ UNCHANGED <<ovars, s2vars, fvars, s3_run, registry, program, env>>
    /\ AtStep
    /\ OpIs("if")
    /\ s3_step' = Step
    /\ LET cond == _eval_expr(Get(Step.d, "cond"), env, frames)
           chosen == IF cond.st = "ok" /\ PyTruthy(cond.v)
                     THEN GetD(Step.d, "then", JL(<<>>))
                     ELSE GetD(Step.d, "else", JL(<<>>))
       IN IF cond.st # "ok"
          THEN /\ s3_pc' = "raised"
               /\ s3_exc' = Exc(cond.st, 0)
               /\ s3_ev' = cond.ev
               /\ s3_stack' = <<>>
          ELSE IF chosen.j # "list"
          THEN /\ s3_pc' = "raised"
               /\ s3_exc' = Exc("ToolError", 0)
               /\ s3_ev' = cond.ev
               /\ s3_stack' = <<>>
          ELSE /\ s3_stack' = Append(Advanced, Block("if", chosen.l, <<>>, ""))
               /\ s3_ev' = cond.ev
               /\ UNCHANGED <<s3_pc, s3_exc>>

\* op == "if"
S3If ==
    /\ UNCHANGED <<ovars, s2vars, fvars, s3_run, registry, program, env>>
    /\ AtStep
    /\ OpIs("if")
    /\ s3_step' = Step
    /\ LET cond == _eval_expr(Get(Step.d, "cond"), env, frames)
           then_steps == GetD(Step.d, "then", JL(<<>>))
           else_steps == GetD(Step.d, "else", JL(<<>>))
       IN IF cond.st # "ok"
          THEN /\ s3_pc' = "raised"
               /\ s3_exc' = Exc(cond.st, 0)
               /\ s3_ev' = cond.ev
               /\ s3_stack' = <<>>
          ELSE IF then_steps.j # "list" \/ else_steps.j # "list"
          THEN /\ s3_pc' = "raised"
               /\ s3_exc' = Exc("ToolError", 0)
               /\ s3_ev' = cond.ev
               /\ s3_stack' = <<>>
          ELSE /\ s3_stack' = Append(Advanced,
                      Block("if", IF PyTruthy(cond.v) THEN then_steps.l ELSE else_steps.l,
                            <<>>, ""))
               /\ s3_ev' = cond.ev
               /\ UNCHANGED <<s3_pc, s3_exc>>

\* the outermost foreach block of the stack (0 if there is none)
OutermostLoop ==
    LET loops == {i \in DOMAIN s3_stack : s3_stack[i].kind = "foreach"}
    IN IF loops = {} THEN 0 ELSE CHOOSE i \in loops : \A k \in loops : i <= k

\* the innermost foreach block of the stack (0 if there is none)
InnermostLoop ==
    LET loops == {i \in DOMAIN s3_stack : s3_stack[i].kind = "foreach"}
    IN IF loops = {} THEN 0 ELSE CHOOSE i \in loops : \A k \in loops : k <= i

\* op == "break": _Break unwinds to the nearest foreach, which swallows it
\* and ends; without one it leaves execute_stage3_program
S3Break ==
    /\ UNCHANGED <<ovars, s2vars, fvars, s3_run, registry, program, env>>
    /\ AtStep
    /\ OpIs("break")
    /\ s3_step' = Step
    /\ s3_ev' = <<>>
    /\ IF InnermostLoop = 0
       THEN /\ s3_pc' = "raised"
            /\ s3_exc' = Exc("_Break", 0)
            /\ s3_stack' = <<>>
       ELSE /\ s3_stack' = SubSeq(s3_stack, 1, InnermostLoop - 1)
            /\ UNCHANGED <<s3_pc, s3_exc>>

\* an unknown op that is registered as a tool before the step fails
S3UnknownOpRegistering ==
    /\ UNCHANGED <<ovars, s2vars, fvars, s3_run, program, env>>
    /\ AtStep
    /\ ~\E name \in {"call", "call_method", "assign", "foreach", "if", "break"} :
          OpIs(name)
    /\ registry' = Bind(registry, "exec", "exec")
    /\ s3_step' = Step
    /\ s3_ev' = <<>>
    /\ s3_pc' = "raised"
    /\ s3_exc' = Exc(IF Step.j = "dict" THEN "ToolError" ELSE "AttributeError", 0)
    /\ s3_stack' = <<>>

\* any other op, and a step that is no object (step.get fails)
S3UnknownOp ==
    /\ UNCHANGED <<ovars, s2vars, fvars, s3_run, registry, program, env>>
    /\ AtStep
    /\ ~\E name \in {"call", "call_method", "assign", "foreach", "if", "break"} :
          OpIs(name)
    /\ s3_step' = Step
    /\ s3_ev' = <<>>
    /\ s3_pc' = "raised"
    /\ s3_exc' = Exc(IF Step.j = "dict" THEN "ToolError" ELSE "AttributeError", 0)
    /\ s3_stack' = <<>>

\* the end of a block, with a foreach that evaluates its list again before
\* every iteration
S3EndBlockRereading ==
    /\ UNCHANGED <<ovars, s2vars, fvars, s3_run, registry, program, s3_exc, s3_ev, s3_step>>
    /\ s3_pc = "run"
    /\ s3_stack # <<>>
    /\ Top.pc > Len(Top.steps)
    /\ LET outer == s3_stack[Len(s3_stack) - 1]
           again == _eval_expr(Get(outer.steps[outer.pc - 1].d, "in"), env, frames)
           items == IF again.st = "ok" /\ again.v.j = "list" THEN again.v.l ELSE <<>>
       IN IF Top.kind = "foreach" /\ Top.idx < Len(items)
          THEN /\ s3_stack' = [s3_stack EXCEPT ![Len(s3_stack)].pc = 1,
                                               ![Len(s3_stack)].idx = @ + 1]
               /\ env' = Bind(env, Top.var, items[Top.idx + 1])
               /\ UNCHANGED s3_pc
          ELSE /\ s3_stack' = SubSeq(s3_stack, 1, Len(s3_stack) - 1)
               /\ s3_pc' = IF Len(s3_stack) = 1 THEN "returned" ELSE "run"
               /\ UNCHANGED env

\* the end of a block, with a loop variable that is local to its loop: it is
\* unbound when the loop is done
S3EndBlockScoped ==
    /\ UNCHANGED <<ovars, s2vars, fvars, s3_run, registry, program, s3_exc, s3_ev, s3_step>>
    /\ s3_pc = "run"
    /\ s3_stack # <<>>
    /\ Top.pc > Len(Top.steps)
    /\ IF Top.kind = "foreach" /\ Top.idx < Len(Top.items)
       THEN /\ s3_stack' = [s3_stack EXCEPT ![Len(s3_stack)].pc = 1,
                                            ![Len(s3_stack)].idx = @ + 1]
            /\ env' = Bind(env, Top.var, Top.items[Top.idx + 1])
            /\ UNCHANGED s3_pc
       ELSE /\ s3_stack' = SubSeq(s3_stack, 1, Len(s3_stack) - 1)
            /\ s3_pc' = IF Len(s3_stack) = 1 THEN "returned" ELSE "run"
            /\ env' = IF Top.kind = "foreach"
                      THEN [n \in DOMAIN env \ {Top.var} |-> env[n]] ELSE env

\* the end of a block: a foreach body starts over with the next element, or
\* the loop is done; the end of the outermost block returns
S3EndBlock ==
    /\ UNCHANGED <<ovars, s2vars, fvars, s3_run, registry, program, s3_exc, s3_ev, s3_step>>
    /\ s3_pc = "run"
    /\ s3_stack # <<>>
    /\ Top.pc > Len(Top.steps)
    /\ IF Top.kind = "foreach" /\ Top.idx < Len(Top.items)
       THEN /\ s3_stack' = [s3_stack EXCEPT ![Len(s3_stack)].pc = 1,
                                            ![Len(s3_stack)].idx = @ + 1]
            /\ env' = Bind(env, Top.var, Top.items[Top.idx + 1])
            /\ UNCHANGED s3_pc
       ELSE /\ s3_stack' = SubSeq(s3_stack, 1, Len(s3_stack) - 1)
            /\ s3_pc' = IF Len(s3_stack) = 1 THEN "returned" ELSE "run"
            /\ UNCHANGED env

\* the call of an attempt that follows another, with the environment of
\* the call before
S3StartKeepEnv ==
    /\ UNCHANGED <<ovars, s2vars, fvars, registry, env>>
    /\ s3_pc \in {"returned", "raised"}
    /\ s3_run.n < Stage3Attempts
    /\ program' \in RetryPrograms
    /\ s3_stack' = <<Block("top", program', <<>>, "")>>
    /\ s3_pc' = "run"
    /\ s3_exc' = NoError
    /\ s3_ev' = <<>>
    /\ s3_step' = [j |-> "null"]
    /\ s3_run' = [n |-> s3_run.n + 1, left |-> env, failed |-> s3_pc = "raised"]

\* execute_stage3_program is called again, for the program of the next
\* attempt of solution_composition: env = {}, run_steps(program.steps).
\* s3_run keeps what the call before ended with.
S3Start ==
    /\ UNCHANGED <<ovars, s2vars, fvars, registry>>
    /\ s3_pc \in {"returned", "raised"}
    /\ s3_run.n < Stage3Attempts
    /\ program' \in RetryPrograms
    /\ env' = <<>>
    /\ s3_stack' = <<Block("top", program', <<>>, "")>>
    /\ s3_pc' = "run"
    /\ s3_exc' = NoError
    /\ s3_ev' = <<>>
    /\ s3_step' = [j |-> "null"]
    /\ s3_run' = [n |-> s3_run.n + 1, left |-> env, failed |-> s3_pc = "raised"]

S3Next ==
    \/ S3Start
    \/ S3Call
    \/ S3CallMethod
    \/ S3Assign
    \/ S3Foreach
    \/ S3If
    \/ S3Break
    \/ S3UnknownOp
    \/ S3EndBlock

SpecS3 == S3Init /\ [][S3Next]_vars

\* run_steps is sequential code and every tool and method call returns or
\* raises: a step that can be taken is taken
SpecS3Fair == SpecS3 /\ WF_vars(S3Next)

(***************************************************************************)
(* RuntimeConfig (runtime/config.py).  A configuration is a record of the  *)
(* five fields of the dataclass; a string field that is None holds "None". *)
(* The URLs of the model are spelled scheme, slashes, userinfo, host, tail *)
(* and hold no tab, carriage return, newline, "]" or "%".                  *)
(***************************************************************************)
_DEFAULT_ALLOWED_BENCHMARK_HOSTS ==
    {"localhost", "127.0.0.1", "0.0.0.0", "host.docker.internal"}

\* a check that looks for an http prefix and an allowed host anywhere in the url
_is_local_http_url_substring(url) ==
    /\ Find(url, "http", 1) = 1
    /\ \E h \in _DEFAULT_ALLOWED_BENCHMARK_HOSTS : Find(url, h, 1) # 0

\* _is_local_http_url(url), with urllib.parse.urlparse and its hostname
\* property as the library computes them: the url loses its leading spaces,
\* the scheme is the lowered text before the first colon when that text
\* starts with a letter and holds scheme characters only, the netloc follows
\* "//" up to the first of "/", "?", "#", a netloc with an unmatched "[" is a
\* ValueError (caught: False), the hostname is the lowered text after the
\* last "@" and before the next ":", None when empty
_is_local_http_url(url) ==
    LET Lowers == "abcdefghijklmnopqrstuvwxyz"
        Uppers == "ABCDEFGHIJKLMNOPQRSTUVWXYZ"
        Chars(x) == {Ch(x, i) : i \in 1..Len(x)}
        scheme_chars == Chars(Lowers) \cup Chars(Uppers) \cup Chars("0123456789+-.")
        u == SubSeq(url, SkipWs(url, 1), Len(url))
        colon == Find(u, ":", 1)
        has_scheme ==
            /\ colon > 1
            /\ Ch(u, 1) \in Chars(Lowers) \cup Chars(Uppers)
            /\ \A i \in 1..(colon - 1) : Ch(u, i) \in scheme_chars
        scheme == IF has_scheme THEN Lower(SubSeq(u, 1, colon - 1)) ELSE ""
        rest == IF has_scheme THEN SubSeq(u, colon + 1, Len(u)) ELSE u
        Delims == {i \in 3..Len(rest) : Ch(rest, i) \in {"/", "?", "#"}}
        delim == IF Delims = {} THEN Len(rest) + 1
                 ELSE CHOOSE i \in Delims : \A k \in Delims : i <= k
        netloc == IF Slice(rest, 1, 2) = "//" THEN SubSeq(rest, 3, delim - 1) ELSE ""
        at == RFind(netloc, "@", Len(netloc))
        hostinfo == SubSeq(netloc, at + 1, Len(netloc))
        port == Find(hostinfo, ":", 1)
        hostname == IF port = 0 THEN hostinfo ELSE SubSeq(hostinfo, 1, port - 1)
        host == Lower(Strip(Lower(hostname)))
    IN IF Find(netloc, "[", 1) # 0 THEN FALSE
       ELSE IF scheme \notin {"http", "https"} THEN FALSE
       ELSE host \in _DEFAULT_ALLOWED_BENCHMARK_HOSTS

\* RuntimeConfig.validate(): what the call does, its exception and the
\* setting the message names
validate(cfg) ==
    LET Unsafe(url) ==
            /\ url \notin {"None", ""}
            /\ ~cfg.allow_nonlocal_benchmark
            /\ ~_is_local_http_url(url)
    IN IF Unsafe(cfg.benchmark_url)
       THEN [st |-> "UnsafeTargetError", msg |-> "Detected non-local 'BENCHMARK_URL'."]
       ELSE IF Unsafe(cfg.benchmark_http_url)
       THEN [st |-> "UnsafeTargetError", msg |-> "Detected non-local 'BENCHMARK_HTTP_URL'."]
       ELSE [st |-> "ok", msg |-> ""]

\* a require that reports every missing setting, requested or not
require_any(cfg, browser, benchmark, openai) ==
    LET Missing(value) == value \in {"None", ""}
        m1 == IF Missing(cfg.browser_url) THEN <<"BROWSER_URL">> ELSE <<>>
        m2 == IF Missing(cfg.benchmark_url) THEN Append(m1, "BENCHMARK_URL") ELSE m1
        missing == IF Missing(cfg.openai_api_key) THEN Append(m2, "OPENAI_API_KEY") ELSE m2
        join[i \in 0..Len(missing)] ==
            IF i = 0 THEN ""
            ELSE IF i = 1 THEN missing[1]
            ELSE join[i - 1] \o ", " \o missing[i]
    IN IF (browser \/ benchmark \/ openai) /\ missing # <<>>
       THEN [st |-> "ConfigError",
             msg |-> "Missing required environment variables: " \o join[Len(missing)]]
       ELSE [st |-> "ok", msg |-> ""]

\* RuntimeConfig.require(browser=..., benchmark=..., openai=...)
require(cfg, browser, benchmark, openai) ==
    LET Missing(value) == value \in {"None", ""}
        m1 == IF browser /\ Missing(cfg.browser_url) THEN <<"BROWSER_URL">> ELSE <<>>
        m2 == IF benchmark /\ Missing(cfg.benchmark_url)
              THEN Append(m1, "BENCHMARK_URL") ELSE m1
        missing == IF openai /\ Missing(cfg.openai_api_key)
                   THEN Append(m2, "OPENAI_API_KEY") ELSE m2
        join[i \in 0..Len(missing)] ==
            IF i = 0 THEN ""
            ELSE IF i = 1 THEN missing[1]
            ELSE join[i - 1] \o ", " \o missing[i]
    IN IF missing # <<>>
       THEN [st |-> "ConfigError",
             msg |-> "Missing required environment variables: " \o join[Len(missing)]]
       ELSE [st |-> "ok", msg |-> ""]

\* RuntimeConfig.from_env(): environ gives each variable its value, "None"
\* for a variable that is not set
from_env(environ) ==
    LET getenv(name, default) ==
            IF environ[name] = "None" THEN default ELSE environ[name]
        Alternate(allow_nonlocal) ==
            IF allow_nonlocal = ""
            THEN Strip(getenv("ALLOW_NONLOCAL_BENCHMARK", ""))
            ELSE allow_nonlocal
        Config(allow_nonlocal, benchmark_url) ==
            [openai_api_key |-> getenv("OPENAI_API_KEY", "None"),
             browser_url |-> getenv("BROWSER_URL", "None"),
             benchmark_url |-> benchmark_url,
             benchmark_http_url |-> getenv("BENCHMARK_HTTP_URL", benchmark_url),
             allow_nonlocal_benchmark |->
                 allow_nonlocal \in {"1", "true", "True", "yes", "YES"}]
    IN Config(Alternate(Strip(getenv("HALLIGAN_ALLOW_NONLOCAL_BENCHMARK", ""))),
              getenv("BENCHMARK_URL", "None"))

\* the benchmark URLs spelled with the given schemes, slashes and hosts, any
\* userinfo and any tail
BenchmarkUrls(schemes, slashes, hosts) ==
    {a \o b \o c \o d \o e :
        a \in schemes, b \in slashes, c \in {"", "localhost@"}, d \in hosts,
        e \in {"", ":3334", "/localhost"}}

(***************************************************************************)
(* The vision tools that prompt the agent (utils/vision_tools.py).  A call *)
(* of a tool yields [st, v, ops]: how it ends ("ok" or the exception that  *)
(* leaves it), the value it returns, and the operations it performed on    *)
(* the agent in order: "call" an invocation that returned, "fail" an       *)
(* invocation that raised, "reset" a reset().  A reply of the agent is     *)
(* [ok, text]; an image list is known by its length.                       *)
(***************************************************************************)
\* len(agent.history) after the operations ops on an agent whose history
\* held h messages: __call__ appends the user message, then the assistant
\* message once the request has returned; reset() empties the history
history(h, ops) ==
    LET after[i \in 0..Len(ops)] ==
            IF i = 0 THEN h
            ELSE IF ops[i] = "reset" THEN 0
            ELSE IF ops[i] = "call" THEN after[i - 1] + 2
            ELSE after[i - 1] + 1
    IN after[Len(ops)]

\* ast.literal_eval(text) of a bracketed text whose items hold no comma and no
\* bracket; the items are decimal integers, True, False, None, quoted strings
\* without escapes; a bare name is a malformed node (ValueError), anything
\* else a SyntaxError, which the parse reports before any node is converted
_safe_literal_list(text) ==
    LET Letters == {Ch("abcdefghijklmnopqrstuvwxyz_", i) : i \in 1..27}
        \* what the stripped text t of an item is
        Kind(t) ==
            IF t = "" THEN "empty"
            ELSE IF DigitsEnd(t, 1) = Len(t) + 1
            THEN (IF Len(t) > 1 /\ Ch(t, 1) = "0" /\ IntOf(t) # 0
                  THEN "syntax" ELSE "int")
            ELSE IF t \in {"True", "False"} THEN "bool"
            ELSE IF t = "None" THEN "null"
            ELSE IF /\ Len(t) >= 2
                    /\ Ch(t, 1) \in {"\"", "'"}
                    /\ Find(t, Ch(t, 1), 2) = Len(t)
                    /\ Find(t, "\\", 1) = 0
                    /\ Find(t, "\n", 1) = 0
            THEN "str"
            ELSE IF \A i \in 1..Len(t) : Ch(Lower(t), i) \in Letters THEN "name"
            ELSE "syntax"
        Value(t, kind) ==
            CASE kind = "int" -> JI(IntOf(t))
              [] kind = "bool" -> JB(t = "True")
              [] kind = "str" -> JS(SubSeq(t, 2, Len(t) - 1))
              [] OTHER -> JNull
        \* inner.split(",")
        Split(inner) ==
            LET parts[i \in 0..Len(inner)] ==
                    IF i = 0 THEN <<"">>
                    ELSE LET before == parts[i - 1]
                         IN IF Ch(inner, i) = "," THEN Append(before, "")
                            ELSE [before EXCEPT ![Len(before)] = @ \o Ch(inner, i)]
            IN parts[Len(inner)]
        \* a comma may follow the last item
        Items(split) ==
            IF Len(split) > 1 /\ Strip(split[Len(split)]) = ""
            THEN SubSeq(split, 1, Len(split) - 1) ELSE split
        Stripped(items) == [i \in 1..Len(items) |-> Strip(items[i])]
        Parsed(items) ==
            IF \E i \in 1..Len(items) : Kind(items[i]) \in {"empty", "syntax"}
            THEN [st |-> "SyntaxError", v |-> JNull]
            ELSE IF \E i \in 1..Len(items) : Kind(items[i]) = "name"
            THEN [st |-> "ValueError", v |-> JNull]
            ELSE [st |-> "ok",
                  v |-> JL([i \in 1..Len(items) |-> Value(items[i], Kind(items[i]))])]
        List(inner) ==
            IF Strip(inner) = "" THEN [st |-> "ok", v |-> JL(<<>>)]
            ELSE Parsed(Stripped(Items(Split(inner))))
    IN List(SubSeq(text, 2, Len(text) - 1))

\* re.search(pattern, text).group(2) for the four patterns of the tools, named
\* by their keyword: answer\((numbers=)?(\[[\d, ]+\])\),
\* answer\((strings=)?(\[[^]]*\])\),
\* answer\((booleans=)?(\[(True|False)(,\s*(True|False))*\])\) and
\* rank\((ids=)?(\[[\d, ]+\])\); "None" when the pattern matches nowhere
re_search(keyword, text) ==
    LET head == IF keyword = "ids" THEN "rank(" ELSE "answer("
        kw == keyword \o "="
        \* the index after the True or False that starts at i, 0 if none does
        Token(s, i) ==
            IF Slice(s, i, i + 3) = "True" THEN i + 4
            ELSE IF Slice(s, i, i + 4) = "False" THEN i + 5
            ELSE 0
        MoreBooleans(s, from) ==
            LET more[i \in 1..(Len(s) + 1)] ==
                    IF i > Len(s) THEN TRUE
                    ELSE LET next == Token(s, SkipWs(s, i + 1))
                         IN Ch(s, i) = "," /\ next # 0 /\ more[next]
            IN more[from]
        Inner(s) ==
            CASE keyword \in {"numbers", "ids"} ->
                    /\ s # ""
                    /\ \A i \in 1..Len(s) : Ch(s, i) \in Digits \cup {",", " "}
              [] keyword = "strings" -> TRUE
              [] OTHER -> Token(s, 1) # 0 /\ MoreBooleans(s, Token(s, 1))
        Close(b) == Find(text, "]", b + 1)
        ListAt(b, close) ==
            /\ Slice(text, b, b) = "["
            /\ close # 0
            /\ Inner(SubSeq(text, b + 1, close - 1))
            /\ Slice(text, close + 1, close + 1) = ")"
        \* the bracket that opens group 2 of a match that starts at p, 0 if
        \* none: q follows the head, w the keyword
        OpenAt(p, q, w) ==
            IF Slice(text, p, q - 1) # head THEN 0
            ELSE IF Slice(text, q, w - 1) = kw /\ ListAt(w, Close(w)) THEN w
            ELSE IF ListAt(q, Close(q)) THEN q
            ELSE 0
        Open(p) == OpenAt(p, p + Len(head), p + Len(head) + Len(kw))
        Group(b) == SubSeq(text, b, Close(b))
        Leftmost(starts) ==
            IF starts = {} THEN "None"
            ELSE Group(Open(CHOOSE p \in starts : \A k \in starts : p <= k))
    IN Leftmost({p \in 1..Len(text) : Open(p) # 0})

\* ask(images, question, answer_type) on n images, the agent injected
ask(n, question, answer_type, reply) ==
    LET Overridden(parsed, q) ==
            IF parsed.st # "ok"
            THEN [st |-> parsed.st, v |-> JNull, ops |-> <<"call", "reset">>]
            ELSE [st |-> "ok",
                  v |-> IF Find(q, "point to the object directly below the letter", 1) # 0
                        THEN JL(<<JI(11)>>)
                        ELSE IF Find(q, "point to the letter", 1) # 0
                        THEN JL(<<JI(7)>>)
                        ELSE parsed.v,
                  ops |-> <<"call", "reset">>]
        Matches(group) ==
            IF group = "None"
            THEN [st |-> "ok",
                  v |-> JL(Repeat(IF answer_type = "bool" THEN JB(FALSE) ELSE JI(0), n)),
                  ops |-> <<"call", "reset">>]
            ELSE Overridden(_safe_literal_list(group), Lower(question))
    IN IF ~reply.ok THEN [st |-> "OtherError", v |-> JNull, ops |-> <<"fail">>]
       ELSE Matches(re_search(IF answer_type = "int" THEN "numbers"
                              ELSE IF answer_type = "str" THEN "strings"
                              ELSE "booleans",
                              reply.text))

\* a compare that parses the reply and leaves the agent as the request left it
compare_keeping_history(n, reply) ==
    LET Parsed(parsed) == [st |-> parsed.st, v |-> parsed.v, ops |-> <<"call">>]
        Matches(group) ==
            IF group = "None"
            THEN [st |-> "ok", v |-> JL(Repeat(JB(FALSE), (n + 1) - 1)),
                  ops |-> <<"call">>]
            ELSE Parsed(_safe_literal_list(group))
    IN IF ~reply.ok THEN [st |-> "OtherError", v |-> JNull, ops |-> <<"fail">>]
       ELSE Matches(re_search("booleans", reply.text))

\* compare(images, task_objective, reference) on n images
compare(n, reply) ==
    LET Parsed(parsed) == [st |-> parsed.st, v |-> parsed.v, ops |-> <<"call", "reset">>]
        Matches(group) ==
            IF group = "None"
            THEN [st |-> "ok", v |-> JL(Repeat(JB(FALSE), (n + 1) - 1)),
                  ops |-> <<"call", "reset">>]
            ELSE Parsed(_safe_literal_list(group))
    IN IF ~reply.ok THEN [st |-> "OtherError", v |-> JNull, ops |-> <<"fail">>]
       ELSE Matches(re_search("booleans", reply.text))

\* the images rank() puts in one prompt
batch_size == 10

\* preorder(root) of rank(): the ids of the tree in the order traverse meets
\* them, each id once
RECURSIVE preorder(_)
preorder(root) ==
    LET below[i \in 0..Len(root.children)] ==
            IF i = 0 THEN <<root.id>>
            ELSE below[i - 1] \o preorder(root.children[i])
        Firsts(met) ==
            SelectSeq([i \in 1..Len(met) |-> <<i, met[i]>>],
                      LAMBDA e : \A k \in 1..(e[1] - 1) : met[k] # e[2])
        Ids(firsts) == [k \in 1..Len(firsts) |-> firsts[k][2]]
    IN Ids(Firsts(below[Len(root.children)]))

\* get_top_rank(prompt, batch, batch_image, batch_captions) of rank(): batch
\* is a sequence of nodes [id, children], sample the list random.sample
\* returns when the reply holds no ranking
get_top_rank(batch, reply, sample) ==
    LET Ints(parsed) ==
            IF parsed.st = "ok"
            THEN [i \in 1..Len(parsed.v.l) |-> parsed.v.l[i].n] ELSE <<>>
        Raw(group) == IF group = "None" THEN <<>> ELSE Ints(_safe_literal_list(group))
        OrSample(raw) == IF raw = <<>> THEN sample ELSE raw
        Least(ranking) ==
            CHOOSE m \in {ranking[i] : i \in 1..Len(ranking)} :
                \A i \in 1..Len(ranking) : m <= ranking[i]
        \* 0-indexed and 1-indexed rankings
        Shifted(ranking) ==
            IF Least(ranking) = 0 THEN ranking
            ELSE [i \in 1..Len(ranking) |->
                     IF ranking[i] - 1 > 0 THEN ranking[i] - 1 ELSE 0]
        \* clamp and de-dup
        Kept(shifted) ==
            LET kept[i \in 0..Len(shifted)] ==
                    IF i = 0 THEN <<>>
                    ELSE LET before == kept[i - 1]
                         IN IF /\ shifted[i] < Len(batch)
                               /\ \A k \in 1..Len(before) : before[k] # shifted[i]
                            THEN Append(before, shifted[i])
                            ELSE before
            IN kept[Len(shifted)]
        Order(kept) == IF kept = <<>> THEN [i \in 1..Len(batch) |-> i - 1] ELSE kept
        Best(order) ==
            IF order = <<>> THEN [st |-> "IndexError", node |-> JNull, ops |-> <<"call">>]
            ELSE [st |-> "ok",
                  node |-> [id |-> batch[order[1] + 1].id,
                            children |-> [i \in 1..Len(order) |-> batch[order[i] + 1]]],
                  ops |-> <<"call", "reset">>]
        Ranked(ranking) ==
            IF ranking = <<>> THEN [st |-> "ValueError", node |-> JNull, ops |-> <<"call">>]
            ELSE Best(Order(Kept(Shifted(ranking))))
    IN IF ~reply.ok THEN [st |-> "OtherError", node |-> JNull, ops |-> <<"fail">>]
       ELSE Ranked(OrSample(Raw(re_search("ids", reply.text))))

\* the rounds of the tournament of rank() that are followed
MaxRounds == 3

\* rank with a next round that puts every winner in a batch of its own
rank_rebatching(n, replies, descending) ==
    LET Sample(k) == [i \in 1..k |-> IF descending THEN k - i ELSE i - 1]
        Batch(b) == [i \in 1..(IF b * batch_size <= n THEN batch_size
                               ELSE n - (b - 1) * batch_size) |->
                        [id |-> (b - 1) * batch_size + i - 1, children |-> <<>>]]
        Reply(k) == IF k \in DOMAIN replies THEN replies[k] ELSE [ok |-> TRUE, text |-> ""]
        Call(before, top) ==
            IF before.st # "ok" THEN before
            ELSE [st |-> top.st,
                  next |-> Append(before.next, top.node),
                  ops |-> before.ops \o top.ops]
        \* for batch in batches: next_batch.append(get_top_rank(...)), the
        \* replies taken from the one after used on
        Round(bs, used, ops) ==
            LET acc[i \in 0..Len(bs)] ==
                    IF i = 0 THEN [st |-> "ok", next |-> <<>>, ops |-> ops]
                    ELSE Call(acc[i - 1],
                              get_top_rank(bs[i], Reply(used + i), Sample(Len(bs[i]))))
            IN acc[Len(bs)]
        \* the end of a round: one winner ends the loop, more of them are
        \* a batch each in the next round
        After(before, round) ==
            [st |-> round.st,
             done |-> round.st = "ok" /\ Len(round.next) = 1,
             batches |-> IF round.st = "ok" THEN [i \in 1..Len(round.next) |-> <<round.next[i]>>] ELSE <<>>,
             next |-> round.next,
             ops |-> round.ops,
             used |-> before.used + Len(before.batches),
             rounds |-> before.rounds + 1]
        Once(before) ==
            IF before.done \/ before.st # "ok" THEN before
            ELSE After(before, Round(before.batches, before.used, before.ops))
        \* while True, for MaxRounds rounds
        Loop(batches) ==
            LET at[r \in 0..MaxRounds] ==
                    IF r = 0
                    THEN [st |-> "ok", done |-> FALSE, batches |-> batches,
                          next |-> <<>>, ops |-> <<>>, used |-> 0, rounds |-> 0]
                    ELSE Once(at[r - 1])
            IN at[MaxRounds]
        Ids(ids) == JL([i \in 1..Len(ids) |-> JI(ids[i])])
        Ranking(last) ==
            IF last.st # "ok"
            THEN [st |-> last.st, v |-> JNull, ops |-> last.ops, rounds |-> last.rounds]
            ELSE IF ~last.done
            THEN [st |-> "running", v |-> JNull, ops |-> last.ops, rounds |-> last.rounds]
            ELSE [st |-> "ok", v |-> Ids(preorder(last.next[1])), ops |-> last.ops,
                  rounds |-> last.rounds]
    IN Ranking(Loop([b \in 1..((n + batch_size - 1) \div batch_size) |-> Batch(b)]))

\* rank(images, task_objective) on n images: replies are the replies of the
\* agent in the order of its invocations (an empty text after the last of
\* them), descending tells whether random.sample returns the indices of a
\* batch from last to first or from first to last.  The result is "running"
\* when the tournament has not ended after MaxRounds rounds.
rank(n, replies, descending) ==
    LET Sample(k) == [i \in 1..k |-> IF descending THEN k - i ELSE i - 1]
        Batch(b) == [i \in 1..(IF b * batch_size <= n THEN batch_size
                               ELSE n - (b - 1) * batch_size) |->
                        [id |-> (b - 1) * batch_size + i - 1, children |-> <<>>]]
        Reply(k) == IF k \in DOMAIN replies THEN replies[k] ELSE [ok |-> TRUE, text |-> ""]
        Call(before, top) ==
            IF before.st # "ok" THEN before
            ELSE [st |-> top.st,
                  next |-> Append(before.next, top.node),
                  ops |-> before.ops \o top.ops]
        \* for batch in batches: next_batch.append(get_top_rank(...)), the
        \* replies taken from the one after used on
        Round(bs, used, ops) ==
            LET acc[i \in 0..Len(bs)] ==
                    IF i = 0 THEN [st |-> "ok", next |-> <<>>, ops |-> ops]
                    ELSE Call(acc[i - 1],
                              get_top_rank(bs[i], Reply(used + i), Sample(Len(bs[i]))))
            IN acc[Len(bs)]
        \* the end of a round: one winner ends the loop, more of them are
        \* the one batch of the next round
        After(before, round) ==
            [st |-> round.st,
             done |-> round.st = "ok" /\ Len(round.next) = 1,
             batches |-> IF round.st = "ok" THEN <<round.next>> ELSE <<>>,
             next |-> round.next,
             ops |-> round.ops,
             used |-> before.used + Len(before.batches),
             rounds |-> before.rounds + 1]
        Once(before) ==
            IF before.done \/ before.st # "ok" THEN before
            ELSE After(before, Round(before.batches, before.used, before.ops))
        \* while True, for MaxRounds rounds
        Loop(batches) ==
            LET at[r \in 0..MaxRounds] ==
                    IF r = 0
                    THEN [st |-> "ok", done |-> FALSE, batches |-> batches,
                          next |-> <<>>, ops |-> <<>>, used |-> 0, rounds |-> 0]
                    ELSE Once(at[r - 1])
            IN at[MaxRounds]
        Ids(ids) == JL([i \in 1..Len(ids) |-> JI(ids[i])])
        Ranking(last) ==
            IF last.st # "ok"
            THEN [st |-> last.st, v |-> JNull, ops |-> last.ops, rounds |-> last.rounds]
            ELSE IF ~last.done
            THEN [st |-> "running", v |-> JNull, ops |-> last.ops, rounds |-> last.rounds]
            ELSE [st |-> "ok", v |-> Ids(preorder(last.next[1])), ops |-> last.ops,
                  rounds |-> last.rounds]
    IN Ranking(Loop([b \in 1..((n + batch_size - 1) \div batch_size) |-> Batch(b)]))

(***************************************************************************)
(* The parser, the validators and the vision tools as calls: the argument  *)
(* is drawn in Init, one action applies the function.  In a call of a      *)
(* vision tool f_n is len(agent.history): execute_stage3 resets the agent  *)
(* before it injects it and runs the program.                              *)
(***************************************************************************)
MaxTextLen == 3
MaxSegs == 4
MaxImages == 2

\* "".join(parts)
RECURSIVE Concat(_)
Concat(parts) == IF parts = <<>> THEN "" ELSE Head(parts) \o Concat(Tail(parts))

\* the responses: None, every text of up to MaxTextLen characters of the
\* alphabet, every text of up to MaxSegs segments; the segments are an
\* object, fences, prose, an object cut in two around its key, a fenced block
\* that holds no JSON
Responses ==
    LET Segments ==
            { "{\"a\": 1}", "'''json\n", "\n'''", "'''{x}'''", "prefix\n", "{\"", "\": 1}", " " }
    IN {JNull}
       \cup {JS(Concat(t)) : t \in UNION {[1..k -> Alphabet] : k \in 0..MaxTextLen}}
       \cup {JS(Concat(t)) : t \in UNION {[1..k -> Segments] : k \in 1..MaxSegs}}

FnInit ==
    /\ \/ /\ f_fn = "parse"
          /\ f_in \in Responses
          /\ f_n = 0
       \/ /\ f_fn = "validate_stage1"
          /\ f_n \in 1..MaxFrames
          /\ f_in \in Stage1Payloads(f_n)
       \/ /\ f_fn = "validate_stage2"
          /\ f_n \in 1..MaxFrames
          /\ f_in \in Stage2Payloads
       \/ /\ f_fn = "validate"
          /\ f_n = 0
          /\ f_in \in [openai_api_key : {"None"},
                       browser_url : {"None"},
                       benchmark_url :
                           {"None", ""} \cup
                           BenchmarkUrls({"http:", "https:", "HTTP:", "ftp:", ""},
                                         {"//", ""},
                                         {"localhost", "LocalHost", " localhost",
                                          "127.0.0.1", "0.0.0.0",
                                          "host.docker.internal", "example.com",
                                          "localhost.example.com", "[localhost", ""}),
                       benchmark_http_url :
                           {"None", "", "http://127.0.0.1:3334", "http://example.com"},
                       allow_nonlocal_benchmark : BOOLEAN]
       \/ /\ f_fn = "require"
          /\ f_n = 0
          /\ f_in \in [cfg : [openai_api_key : {"None", "", "sk-1"},
                              browser_url : {"None", "", "ws://127.0.0.1:3000"},
                              benchmark_url : {"None", "", "http://127.0.0.1:3334"},
                              benchmark_http_url : {"None", "http://127.0.0.1:3334"},
                              allow_nonlocal_benchmark : {FALSE}],
                       browser : BOOLEAN, benchmark : BOOLEAN, openai : BOOLEAN]
       \/ /\ f_fn = "ask"
          /\ f_n = 0
          /\ f_in \in [n : 0..MaxImages,
                       question : {"How many?", "Point to the letter A",
                                   "point to the object directly below the letter B"},
                       answer_type : {"int", "str", "bool"},
                       reply : [ok : {TRUE},
                                text : {"answer([1, 2])", "answer(numbers=[1, 2])",
                                        "answer([1 2])", "answer([01])", "answer([,])",
                                        "answer([ ])", "answer([1,])", "answer([])",
                                        "I cannot tell.", "Answer([1])",
                                        "answer(strings=[\"a\", 'b'])",
                                        "answer(strings=[a])",
                                        "answer([True, False])",
                                        "answer(booleans=[True,\n False])",
                                        "answer(booleans=[True, False]",
                                        "so answer([1 2]) or answer([3])"}]
                               \cup {[ok |-> FALSE, text |-> ""]}]
       \/ /\ f_fn = "compare"
          /\ f_n = 0
          /\ f_in \in [n : 0..MaxImages,
                       reply : [ok : {TRUE},
                                text : {"answer([True, False])", "answer(booleans=[False])",
                                        "answer(booleans=[True,\n False])",
                                        "answer([true])", "answer([1, 0])",
                                        "I cannot tell.", "answer([True False])"}]
                               \cup {[ok |-> FALSE, text |-> ""]}]
       \/ /\ f_fn = "from_env"
          /\ f_n = 0
          \* the two switches: not set, empty, blank, and words with and
          \* without whitespace around them
          /\ f_in \in
               {flags @@ urls :
                  flags \in [{"HALLIGAN_ALLOW_NONLOCAL_BENCHMARK", "ALLOW_NONLOCAL_BENCHMARK"} ->
                               {"None", "", " ", "1", " 1\n", "true", "True", "TRUE", "yes",
                                "YES", "Yes", "0", "no", "false", "on", "1 1"}],
                  urls \in [BENCHMARK_URL : {"None", "http://localhost:3334",
                                             "http://example.com"},
                            BENCHMARK_HTTP_URL : {"None", "http://example.com"},
                            BROWSER_URL : {"None"},
                            OPENAI_API_KEY : {"None"}]}
       \/ /\ f_fn = "rank"
          /\ f_n = 0
          /\ f_in \in [n : (0..MaxImages) \cup {batch_size + k : k \in 1..MaxImages},
                       replies : [1..3 -> [ok : {TRUE},
                                           text : {"rank(ids=[2, 1])", "rank([0])",
                                                   "rank([5])", "rank([,])",
                                                   "I cannot tell."}]
                                          \cup {[ok |-> FALSE, text |-> ""]}],
                       descending : BOOLEAN]
    /\ f_out = [st |-> "pending"]
    /\ o_stage = 0
    /\ o_pc = "idle"
    /\ o_attempt = 0
    /\ o_hist = 0
    /\ o_prompt = StagePrompt
    /\ o_calls = <<>>
    /\ o_exc = NoError
    /\ o_last = NoError
    /\ o_errs = <<>>
    /\ o_raised = NoError
    /\ o_resets = 0
    /\ o_lastop = "none"
    /\ o_validated = 0
    /\ o_injected = FALSE
    /\ o_executed = 0
    /\ frames = <<>>
    /\ s2_i = 0
    /\ s2_pc = "idle"
    /\ s2_exc = NoError
    /\ registry = <<>>
    /\ program = <<>>
    /\ env = <<>>
    /\ s3_stack = <<>>
    /\ s3_pc = "idle"
    /\ s3_exc = NoError
    /\ s3_ev = <<>>
    /\ s3_step = [j |-> "null"]
    /\ s3_run = [n |-> 0, left |-> <<>>, failed |-> FALSE]

\* data = parse_json_from_response(response)
RunParse ==
    /\ UNCHANGED <<ovars, s2vars, s3vars, f_fn, f_in, f_n>>
    /\ f_fn = "parse"
    /\ f_out.st = "pending"
    /\ f_out' = parse_json_from_response(f_in)

\* result = validate_stage1(data, frames=len(frames))
RunValidate1 ==
    /\ UNCHANGED <<ovars, s2vars, s3vars, f_fn, f_in, f_n>>
    /\ f_fn = "validate_stage1"
    /\ f_out.st = "pending"
    /\ f_out' = validate_stage1(f_in, f_n)

\* plan = validate_stage2(data, frames=len(frames))
RunValidate2 ==
    /\ UNCHANGED <<ovars, s2vars, s3vars, f_fn, f_in, f_n>>
    /\ f_fn = "validate_stage2"
    /\ f_out.st = "pending"
    /\ f_out' = validate_stage2(f_in, f_n)

\* cfg.validate()
RunConfigValidate ==
    /\ UNCHANGED <<ovars, s2vars, s3vars, f_fn, f_in, f_n>>
    /\ f_fn = "validate"
    /\ f_out.st = "pending"
    /\ f_out' = validate(f_in)

\* cfg.require(browser=..., benchmark=..., openai=...)
RunConfigRequire ==
    /\ UNCHANGED <<ovars, s2vars, s3vars, f_fn, f_in, f_n>>
    /\ f_fn = "require"
    /\ f_out.st = "pending"
    /\ f_out' = require(f_in.cfg, f_in.browser, f_in.benchmark, f_in.openai)

\* cfg = RuntimeConfig.from_env(); cfg.validate()
RunFromEnv ==
    /\ UNCHANGED <<ovars, s2vars, s3vars, f_fn, f_in, f_n>>
    /\ f_fn = "from_env"
    /\ f_out.st = "pending"
    /\ f_out' = [st |-> "ok", cfg |-> from_env(f_in), gate |-> validate(from_env(f_in)).st]

\* ask(images, question, answer_type) as a tool of a Stage-3 program
RunAsk ==
    /\ UNCHANGED <<ovars, s2vars, s3vars, f_fn, f_in>>
    /\ f_fn = "ask"
    /\ f_out.st = "pending"
    /\ f_out' = ask(f_in.n, f_in.question, f_in.answer_type, f_in.reply)
    /\ f_n' = history(f_n, f_out'.ops)

\* compare(images, task_objective, reference) as a tool of a Stage-3 program
RunCompare ==
    /\ UNCHANGED <<ovars, s2vars, s3vars, f_fn, f_in>>
    /\ f_fn = "compare"
    /\ f_out.st = "pending"
    /\ f_out' = compare(f_in.n, f_in.reply)
    /\ f_n' = history(f_n, f_out'.ops)

\* rank(images, task_objective) as a tool of a Stage-3 program
RunRank ==
    /\ UNCHANGED <<ovars, s2vars, s3vars, f_fn, f_in>>
    /\ f_fn = "rank"
    /\ f_out.st = "pending"
    /\ f_out' = rank(f_in.n, f_in.replies, f_in.descending)
    /\ f_n' = history(f_n, f_out'.ops)

FnNext ==
    \/ RunParse
    \/ RunValidate1
    \/ RunValidate2
    \/ RunConfigValidate
    \/ RunConfigRequire
    \/ RunFromEnv
    \/ RunAsk
    \/ RunCompare
    \/ RunRank

SpecFn == FnInit /\ [][FnNext]_vars

(***************************************************************************)
(* Claims about the orchestrators                                          *)
(***************************************************************************)
\* the attempt budget the specification gives each stage
BudgetOf(stage) == IF stage = 3 THEN 4 ELSE 3

\* the kinds the specification lists as retryable in each stage
RetryableOf(stage) ==
    IF stage = 3
    THEN {"ParseError", "ValidationError", "ToolError"}
    ELSE {"ParseError", "ValidationError"}

\* C6: in every stage, between a failed attempt and the agent call that sends
\* the retry prompt, agent.reset() is called at least once, so every retry
\* prompt (every agent call after the first) is sent with an empty history.
C6_RetryAfterReset ==
    \A i \in 2..Len(o_calls) : o_calls[i].resets >= 1 /\ o_calls[i].hist = 0

\* C7: the agent is called with a stage prompt at most 3 times in Stages 1
\* and 2 and at most 4 times in Stage 3, and the orchestrator terminates
\* (returns or raises).
C7_BoundedAttempts ==
    /\ [](Len(o_calls) <= BudgetOf(o_stage))
    /\ [](OrchDone => o_attempt <= BudgetOf(o_stage))
    /\ <>OrchDone

\* C7 witness: the full Stage-3 budget was used and the orchestrator ended.
C7_Witness == o_stage = 3 /\ Len(o_calls) = 4 /\ o_pc = "exhausted"

\* every attempt of the budget failed with a kind retryable in the stage
AllAttemptsFailedRetryably ==
    /\ Len(o_errs) = BudgetOf(o_stage)
    /\ \A i \in 1..Len(o_errs) : o_errs[i].kind \in RetryableOf(o_stage)

\* C8: when every attempt fails with a retryable error, the orchestrator
\* raises exactly the error of its final attempt, and a retryable error
\* leaves the orchestrator only after the final attempt has run.
C8_RaisesLastError ==
    /\ (AllAttemptsFailedRetryably /\ OrchDone) =>
          /\ o_pc = "exhausted"
          /\ o_raised = o_errs[Len(o_errs)]
          /\ o_raised.at = BudgetOf(o_stage)
    /\ (o_raised.kind \in RetryableOf(o_stage)) =>
          /\ Len(o_calls) = BudgetOf(o_stage)
          /\ Len(o_errs) = BudgetOf(o_stage)

\* C8 witness: three failed Stage-2 attempts of different kinds, then the raise.
C8_Witness ==
    /\ o_stage = 2
    /\ o_pc = "exhausted"
    /\ AllAttemptsFailedRetryably
    /\ o_errs[1].kind = "ParseError"
    /\ o_errs[3].kind = "ValidationError"
    /\ o_raised = Exc("ValidationError", 3)

\* C9: an exception of a kind that is not retryable in the stage propagates
\* at once: it ends the orchestrator with that exception, and no further
\* attempt or agent call follows it.
C9_NonRetryablePropagates ==
    \A i \in 1..Len(o_errs) :
        o_errs[i].kind \notin RetryableOf(o_stage) =>
            /\ i = Len(o_errs)
            /\ Len(o_calls) = o_errs[i].at
            /\ o_pc \in {"handler", "raised"}
            /\ o_pc = "raised" => o_raised = o_errs[i]

\* C10: in Stage 3, every attempt whose response parsed and validated has had
\* the agent injected into the vision tools and execute_stage3_program run
\* on its program once the attempt is over.
C10_InjectThenExecute ==
    (o_stage = 3 /\ o_pc \notin {"parse", "validate", "apply"}) =>
        /\ o_executed = o_validated
        /\ o_validated > 0 => o_injected
(***************************************************************************)
(* Claims about the Stage-2 applier                                        *)
(***************************************************************************)
\* every tag of a frame, of its elements and of its subframes, by descent
RECURSIVE TagsIn(_)
TagsIn(f) ==
    (IF f.interactable # "None" THEN {f.interactable} ELSE {})
    \cup {f.interactables[k] : k \in {j \in DOMAIN f.interactables :
                                         f.interactables[j] # "None"}}
    \cup UNION {TagsIn(f.subframes[k]) : k \in DOMAIN f.subframes}

\* how often tag t occurs in a frame, its elements and its subframes
RECURSIVE Occurrences(_, _)
Occurrences(f, t) ==
    LET SubSum[i \in 0..Len(f.subframes)] ==
            IF i = 0 THEN 0 ELSE SubSum[i - 1] + Occurrences(f.subframes[i], t)
    IN (IF f.interactable = t THEN 1 ELSE 0)
       + Cardinality({j \in DOMAIN f.interactables : f.interactables[j] = t})
       + SubSum[Len(f.subframes)]

TreeTags == UNION {TagsIn(frames[i]) : i \in DOMAIN frames}

TreeNextCount ==
    LET S[i \in 0..Len(frames)] ==
            IF i = 0 THEN 0 ELSE S[i - 1] + Occurrences(frames[i], "NEXT")
    IN S[Len(frames)]

\* exactly one distinct non-NEXT tag in the whole tree, at most one NEXT
SingleTypeTree ==
    /\ Cardinality(TreeTags \ {"NEXT"}) = 1
    /\ TreeNextCount <= 1

\* C1: when apply_stage2_plan returns, the whole tree carries exactly one
\* distinct non-NEXT tag and at most one NEXT; when the tree after all actions
\* violates this, apply_stage2_plan raises ValidationError.
C1_PostCondition ==
    /\ s2_pc = "returned" => SingleTypeTree
    /\ (s2_pc = "raised" /\ s2_exc.at = 0) =>
          (~SingleTypeTree /\ s2_exc.kind = "ValidationError")

\* C1 witness: frame 0 was split into SELECTABLE subframes and then given
\* SWAPPABLE grid elements, and the post-condition raised.
C1_Witness ==
    /\ s2_pc = "raised"
    /\ s2_exc = Exc("ValidationError", 0)
    /\ s2_i = 2
    /\ Len(frames) = 1
    /\ Len(frames[1].subframes) = 4
    /\ \A k \in 1..4 : frames[1].subframes[k].interactable = "SELECTABLE"
    /\ frames[1].interactables = <<"SWAPPABLE", "SWAPPABLE">>

(***************************************************************************)
(* Claims about the Stage-3 interpreter                                    *)
(***************************************************************************)
\* the (class, method) pairs the specification lets a program invoke
MethodAllowlist ==
    { <<"Frame", "show_keypoints">>, <<"Frame", "get_keypoint">>,
      <<"Frame", "get_interactable">>,
      <<"Point", "show_neighbours">>, <<"Point", "get_neighbour">>,
      <<"SelectChoice", "select">>,
      <<"SlideChoice", "refine">>, <<"SlideChoice", "release">>,
      <<"SwapChoice", "swap">>, <<"DragChoice", "drop">>, <<"Choice", "release">> }

\* a name that begins with two underscores
Reserved(name) == Len(name) >= 2 /\ SubSeq(name, 1, 2) = "__"

\* the last step executed was a call step
LastWasCall == s3_step.j = "dict" /\ Get(s3_step.d, "op") = JS("call")

\* C2: every function a call step invokes is the callable the registry holds
\* under the step's tool name; a call step naming an unregistered tool raises
\* ToolError having invoked nothing and evaluated no argument.
C2_CallUsesRegistry ==
    LastWasCall =>
       LET tool == Get(s3_step.d, "tool")
       IN /\ \A i \in DOMAIN s3_ev :
                s3_ev[i][1] = "tool" =>
                   /\ PyIsStr(tool)
                   /\ s3_ev[i][2] = tool.s
                   /\ tool.s \in DOMAIN registry
                   /\ s3_ev[i][3] = registry[tool.s]
          /\ (PyIsStr(tool) /\ tool.s \notin DOMAIN registry) =>
                /\ s3_pc = "raised"
                /\ s3_exc = Exc("ToolError", 0)
                /\ s3_ev = <<>>

\* a registered tool was called and its result bound, then a call step named
\* "eval", which no registry holds, with an argument to evaluate
C2_Witness ==
    /\ program = <<CallStep(JS("echo"), JD("value" :> JI(1)), JS("x")),
                   CallStep(JS("eval"), JD("value" :> OfFrame("keypoint", 0, 0)), JS("x"))>>
    /\ s3_step = program[2]
    /\ env = ("x" :> JI(1))
    /\ s3_pc = "raised"
    /\ s3_exc = Exc("ToolError", 0)

\* C3: a call_method step invokes the method only for an allowlisted (class of
\* the evaluated target, method) pair; for any other pair it raises ToolError
\* once the target is evaluated: no attribute lookup, no argument evaluation,
\* no invocation.
C3_MethodAllowlisted ==
    [][ (AtStep /\ OpIs("call_method")) =>
           LET target == _eval_expr(Get(Step.d, "target"), env, frames)
               method == Get(Step.d, "method")
           IN /\ \A i \in DOMAIN s3_ev' :
                    s3_ev'[i][1] = "invoke_method" =>
                       /\ target.st = "ok"
                       /\ PyIsStr(method)
                       /\ s3_ev'[i][2] = _class_name(target.v)
                       /\ s3_ev'[i][3] = method.s
                       /\ <<s3_ev'[i][2], s3_ev'[i][3]>> \in MethodAllowlist
              /\ ( /\ target.st = "ok"
                   /\ PyIsStr(method)
                   /\ <<_class_name(target.v), method.s>> \notin MethodAllowlist ) =>
                    /\ s3_pc' = "raised"
                    /\ s3_exc' = Exc("ToolError", 0)
                    /\ s3_ev' = Append(target.ev, <<"target", _class_name(target.v), "">>)
      ]_vars

\* get_neighbour is called on a value that has the attribute but whose class
\* is not in the allowlist: the step raised right after evaluating the target
C3_Witness ==
    /\ s3_step = CallMethodStep(Var("p"), "get_neighbour", JD("id" :> JI(0)), JS("q"))
    /\ "p" \in DOMAIN env
    /\ env["p"] = TracerObj(0)
    /\ s3_pc = "raised"
    /\ s3_exc = Exc("ToolError", 0)
    /\ s3_ev = <<<<"target", "Tracer", "">>>>

\* C4: every method invoked on a runtime object, by a call_method step or by
\* an expression form (neighbour, interactable, keypoint), is a (class,
\* method) pair of the allowlist, the class being that of the object it is
\* invoked on.
C4_InvokedByClass ==
    \A i \in DOMAIN s3_ev :
       s3_ev[i][1] \in {"invoke", "invoke_method"} =>
          <<s3_ev[i][2], s3_ev[i][3]>> \in MethodAllowlist

\* C5: no attribute whose name begins with two underscores is resolved on a
\* runtime object: {ref: attr}, {op: map_attr} and call_method raise
\* ToolError for such a name before any attribute lookup.
C5_NoDunderResolved ==
    [][ AtStep =>
           /\ \A i \in DOMAIN s3_ev' :
                 s3_ev'[i][1] \in {"getattr", "lookup", "hasattr"} =>
                    ~Reserved(s3_ev'[i][3])
           /\ OpIs("assign") /\ PyIsStr(Get(Step.d, "var")) /\ Get(Step.d, "var").s # ""
              /\ Get(Step.d, "value").j = "dict" =>
                 LET d == Get(Step.d, "value").d
                     name == IF Get(d, "ref") = JS("attr") THEN Get(d, "name")
                             ELSE Get(d, "attr")
                     sub == _eval_expr(IF Get(d, "ref") = JS("attr") THEN Get(d, "obj")
                                       ELSE Get(d, "list"), env, frames)
                 IN ( /\ "var" \notin DOMAIN d
                      /\ Get(d, "ref") = JS("attr")
                         \/ (Get(d, "ref") = JNull /\ Get(d, "op") = JS("map_attr"))
                      /\ PyIsStr(name)
                      /\ Reserved(name.s)
                      /\ sub.st = "ok" ) =>
                       /\ s3_pc' = "raised"
                       /\ s3_exc' = Exc("ToolError", 0)
                       /\ s3_ev' = sub.ev
           /\ OpIs("call_method") =>
                 LET target == _eval_expr(Get(Step.d, "target"), env, frames)
                     method == Get(Step.d, "method")
                 IN (target.st = "ok" /\ PyIsStr(method) /\ Reserved(method.s)) =>
                       /\ s3_pc' = "raised"
                       /\ s3_exc' = Exc("ToolError", 0)
                       /\ \A i \in DOMAIN s3_ev' : s3_ev'[i][1] # "lookup"
      ]_vars

\* p is bound to an object and {ref: attr, name: "__class__"} was evaluated
\* on it: ToolError, and nothing was looked up
C5_Witness ==
    /\ s3_step = AssignStep("x", Attr(Var("p"), "__class__"))
    /\ "p" \in DOMAIN env
    /\ env["p"] = PointObj(0)
    /\ s3_pc = "raised"
    /\ s3_exc = Exc("ToolError", 0)
    /\ s3_ev = <<>>

(***************************************************************************)
(* Claims about the parser and the validators                              *)
(***************************************************************************)
\* the call of the parser has returned or raised
Parsed == f_fn = "parse" /\ f_out.st # "pending"

\* the texts the three strategies hand to the decoder, in order: the
\* trimmed text, the inside of the first fenced block, the span from the
\* first opening to the last closing brace (those that exist)
ExtractionPositions(text) ==
    IF text = JNull \/ Strip(text.s) = "" THEN <<>>
    ELSE LET raw == Strip(text.s)
             m == FenceSearch(raw, 1)
             start == Find(raw, "{", 1)
             end == RFind(raw, "}", Len(raw))
         IN <<raw>>
            \o (IF m.a # 0 THEN <<SubSeq(raw, m.a, m.b)>> ELSE <<>>)
            \o (IF start # 0 /\ end > start THEN <<SubSeq(raw, start, end)>> ELSE <<>>)

\* the positions that hold valid JSON
ValidPositions(text) ==
    {i \in DOMAIN ExtractionPositions(text) :
        JsonLoads(ExtractionPositions(text)[i]).st = "ok"}

\* C16: the parser returns the value of the first of the three extraction
\* positions that holds valid JSON, and raises ParseError only when none
\* of them does.
C16_FirstValidStrategy ==
    Parsed =>
       LET valid == ValidPositions(f_in)
       IN IF valid = {} THEN f_out.st = "ParseError"
          ELSE LET first == CHOOSE i \in valid : \A k \in valid : i <= k
               IN /\ f_out.st = "ok"
                  /\ f_out.v = JsonLoads(ExtractionPositions(f_in)[first]).v

\* msg ends with suffix
EndsWith(msg, suffix) ==
    /\ Len(msg) >= Len(suffix)
    /\ SubSeq(msg, Len(msg) - Len(suffix) + 1, Len(msg)) = suffix

Validated1 == f_fn = "validate_stage1" /\ f_out.st # "pending"

\* the call of validate_stage2 has returned or raised
Validated2 == f_fn = "validate_stage2" /\ f_out.st # "pending"

\* x is a number i with 0 <= i < n
NumberInRange(x, n) == PyIsInt(x) /\ 0 <= PyInt(x) /\ PyInt(x) < n

\* the conditions of Stage 1 on the input: n descriptions, every relation
\* with from in range and to None or in range, an objective that is not
\* blank
Stage1Conditions(data, n) ==
    /\ data.j = "dict"
    /\ Get(data.d, "descriptions").j = "list"
    /\ Len(Get(data.d, "descriptions").l) = n
    /\ LET rels == GetD(data.d, "relations", JL(<<>>))
       IN /\ rels.j = "list"
          /\ \A i \in DOMAIN rels.l :
                /\ rels.l[i].j = "dict"
                /\ NumberInRange(Get(rels.l[i].d, "from"), n)
                /\ \/ Get(rels.l[i].d, "to") = JNull
                   \/ NumberInRange(Get(rels.l[i].d, "to"), n)
    /\ Get(data.d, "objective").j = "str"
    /\ \E k \in 1..Len(Get(data.d, "objective").s) :
          Ch(Get(data.d, "objective").s, k) \notin Whitespace

\* C18: a result returned by validate_stage1(data, frames=n) has exactly n
\* descriptions, every relation has 0 <= src < n and dst None or
\* 0 <= dst < n, and the objective is stripped and not empty; an input that
\* violates one of these raises ValidationError.
C18_Stage1Result ==
    Validated1 =>
       /\ f_out.st \in {"ok", "ValidationError"}
       /\ f_out.st = "ok" =>
             /\ Len(f_out.v.descriptions) = f_n
             /\ \A i \in DOMAIN f_out.v.relations :
                   /\ NumberInRange(f_out.v.relations[i].src, f_n)
                   /\ \/ f_out.v.relations[i].dst = JNull
                      \/ NumberInRange(f_out.v.relations[i].dst, f_n)
             /\ f_out.v.objective # ""
             /\ Ch(f_out.v.objective, 1) \notin Whitespace
             /\ Ch(f_out.v.objective, Len(f_out.v.objective)) \notin Whitespace
       /\ ~Stage1Conditions(f_in, f_n) => f_out.st = "ValidationError"

\* two descriptions for two frames, two relations and the objective " go ":
\* the result is returned with the objective stripped
C18_Witness ==
    /\ Validated1
    /\ f_n = 2
    /\ f_out.st = "ok"
    /\ Len(f_out.v.descriptions) = 2
    /\ Len(f_out.v.relations) = 2
    /\ f_in.d["objective"] = JS(" go ")
    /\ f_out.v.objective = "go"

\* a member where the schema wants an integer holds a JSON value that is
\* not a JSON integer
NotJsonInt(o, key) == Get(o, key).j # "int"

\* the elements of a sequence
Range(seq) == {seq[i] : i \in DOMAIN seq}

\* the items of the array under key of the payload; none when the payload
\* is no object or the member no array
ItemsAt(data, key) ==
    IF data.j = "dict" /\ Get(data.d, key).j = "list" THEN Get(data.d, key).l ELSE <<>>

\* C19: the validators reject every input that has, at a position that
\* requires an integer (relations[i].from, relations[i].to when present,
\* actions[i].frame, rows, columns, tiles), a JSON value that is not a JSON
\* integer: float, string, boolean, object or array.
C19_NoCoercion ==
    /\ Validated1 =>
          \A rel \in Range(ItemsAt(f_in, "relations")) :
             (/\ rel.j = "dict"
              /\ \/ NotJsonInt(rel.d, "from")
                 \/ Get(rel.d, "to") # JNull /\ NotJsonInt(rel.d, "to"))
             => f_out.st = "ValidationError"
    /\ Validated2 =>
          \A item \in Range(ItemsAt(f_in, "actions")) :
             (/\ item.j = "dict"
              /\ \/ NotJsonInt(item.d, "frame")
                 \/ /\ Get(item.d, "type") = JS("split_frame")
                    /\ NotJsonInt(item.d, "rows") \/ NotJsonInt(item.d, "columns")
                 \/ /\ Get(item.d, "type") = JS("grid_frame")
                    /\ NotJsonInt(item.d, "tiles"))
             => f_out.st = "ValidationError"

\* the conditions of Stage 2 on one item of $.actions
Stage2Conditions(item, n) ==
    /\ item.j = "dict"
    /\ Get(item.d, "type").j = "str"
    /\ NumberInRange(Get(item.d, "frame"), n)
    /\ LET t == Get(item.d, "type").s
           tag(key, tags) == Get(item.d, key).j = "str" /\ Get(item.d, key).s \in tags
           positive(key) == PyIsInt(Get(item.d, key)) /\ PyInt(Get(item.d, key)) > 0
       IN \/ t = "set_frame" /\ tag("interactable", FrameTags)
          \/ t = "split_frame" /\ positive("rows") /\ positive("columns")
                /\ tag("mark_as", FrameTags)
          \/ t = "grid_frame" /\ positive("tiles") /\ tag("mark_as", ElementTags)
          \/ /\ t = "get_element"
             /\ tag("position", {"up", "down", "left", "right", "all"})
             /\ Get(item.d, "details").j = "str"
             /\ \E k \in 1..Len(Get(item.d, "details").s) :
                   Ch(Get(item.d, "details").s, k) \notin Whitespace
             /\ tag("mark_as", ElementTags)

\* C20: validate_stage2(data, frames=n) returns a plan only if every item
\* of $.actions meets the conditions of its type (type, frame in range,
\* positive rows, columns and tiles, position, details not blank, a tag of
\* the right level); the plan holds one action per item, in the order of
\* the input; every other input raises ValidationError.
C20_Stage2Plan ==
    Validated2 =>
       /\ f_out.st \in {"ok", "ValidationError"}
       /\ f_out.st = "ok" =>
             /\ f_in.j = "dict"
             /\ Get(f_in.d, "actions").j = "list"
             /\ Len(f_out.v) = Len(f_in.d["actions"].l)
             /\ \A i \in DOMAIN f_out.v :
                   /\ Stage2Conditions(f_in.d["actions"].l[i], f_n)
                   /\ f_out.v[i].type = f_in.d["actions"].l[i].d["type"].s
                   /\ f_out.v[i].frame = f_in.d["actions"].l[i].d["frame"]

\* a plan of a split_frame followed by a get_element is returned with its
\* two actions in that order
C20_Witness ==
    /\ Validated2
    /\ f_out.st = "ok"
    /\ Len(f_out.v) = 2
    /\ f_out.v[1].type = "split_frame"
    /\ f_out.v[2].type = "get_element"
    /\ f_out.v[2].details = "d"

(***************************************************************************)
(* Claims about the environment of a Stage-3 run                           *)
(***************************************************************************)
\* the names the steps can bind: save_as of a call, var of an assign or a
\* foreach, and those of the steps nested in a foreach or an if
RECURSIVE BoundNames(_)
BoundNames(steps) ==
    UNION { IF steps[i].j # "dict" THEN {}
            ELSE LET d == steps[i].d
                     op == Get(d, "op")
                     name(key) == IF Get(d, key).j = "str" THEN {Get(d, key).s} ELSE {}
                     nested(key) == IF Get(d, key).j = "list"
                                    THEN BoundNames(Get(d, key).l) ELSE {}
                 IN IF op \in {JS("call"), JS("call_method")} THEN name("save_as")
                    ELSE IF op = JS("assign") THEN name("var")
                    ELSE IF op = JS("foreach") THEN name("var") \cup nested("do")
                    ELSE IF op = JS("if") THEN nested("then") \cup nested("else")
                    ELSE {}
          : i \in DOMAIN steps }

\* the names n for which the step evaluates {var: n} as its condition,
\* value, target, list or as one of its arguments
LooksUp(step) ==
    LET d == step.d
        op == Get(d, "op")
        args == IF Get(d, "args").j = "dict"
                THEN {Get(d, "args").d[k] : k \in DOMAIN Get(d, "args").d} ELSE {}
        operands ==
            IF op = JS("call") THEN args
            ELSE IF op = JS("call_method") THEN args \cup {Get(d, "target")}
            ELSE IF op = JS("assign") THEN {Get(d, "value")}
            ELSE IF op = JS("foreach") THEN {Get(d, "in")}
            ELSE IF op = JS("if") THEN {Get(d, "cond")}
            ELSE {}
    IN {x.d["var"].s : x \in {y \in operands : y.j = "dict" /\ "var" \in DOMAIN y.d}}

\* C14: every run of execute_stage3_program starts with an empty
\* environment, the environment holds only names bound by steps of the
\* program of the run, and a step that looks up {var: n} goes through only
\* when n is bound; what an earlier run bound is not there.
C14_FreshEnvironment ==
    [][ /\ s3_run'.n # s3_run.n => env' = <<>>
        /\ DOMAIN env' \subseteq BoundNames(program')
        /\ (AtStep /\ Step.j = "dict" /\ s3_pc' = "run") =>
              LooksUp(Step) \subseteq DOMAIN env ]_vars

\* a failed run had bound x; the program of the next attempt looks x up
\* and fails with ToolError: the variable is undefined
C14_Witness ==
    /\ s3_run.n = 2
    /\ s3_run.failed
    /\ "x" \in DOMAIN s3_run.left
    /\ program = <<IfStep(Var("x"), <<BreakStep>>, <<>>)>>
    /\ s3_pc = "raised"
    /\ s3_exc.kind = "ToolError"
    /\ env = <<>>

\* the program of test_stage3_executor_calls_registered_tools
EchoTwice ==
    << CallStep(JS("echo"), JD("value" :> JI(123)), JS("out")),
       CallStep(JS("echo"), JD("value" :> Var("out")), JS("out2")) >>

\* C15: when a call step with save_as = s completes, env[s] is the value
\* the tool returned and no other name changes; an argument {var: s} of a
\* later step is that value: echo(123) saved as out, then echo({var: out})
\* saved as out2, returns with out = out2 = 123.
C15_SaveAsBinds ==
    [][ /\ (AtStep /\ OpIs("call") /\ s3_pc' = "run" /\ Get(Step.d, "save_as") # JNull) =>
              LET s == Step.d["save_as"].s
                  args == EvalArgs(Step.d["args"].d, env, frames, EmptyDict, <<>>).v
              IN /\ s \in DOMAIN env'
                 /\ [st |-> "ok", v |-> env'[s]]
                       \in CallOutcomes(registry[Step.d["tool"].s], args)
                 /\ \A n \in LooksUp(Step) :
                       \A k \in DOMAIN args : Step.d["args"].d[k] = Var(n) => args[k] = env[n]
                 /\ \A k \in DOMAIN env' \ {s} : k \in DOMAIN env /\ env'[k] = env[k]
        /\ (program' = EchoTwice /\ s3_pc' = "returned") =>
              env' = ("out" :> JI(123)) @@ ("out2" :> JI(123)) ]_vars

\* the test program has returned with both names bound to 123
C15_Witness ==
    /\ program = EchoTwice
    /\ s3_pc = "returned"
    /\ s3_exc = NoError
    /\ env = ("out" :> JI(123)) @@ ("out2" :> JI(123))

(***************************************************************************)
(* Claims about what Stages 1 and 2 do to the frames                       *)
(***************************************************************************)
\* the attempt fails with an error the except clause of Stages 1 and 2
\* catches
AttemptFails ==
    /\ o_pc' = "handler"
    /\ o_exc'.kind \in {"ParseError", "ValidationError"}

\* what a step of Stages 1 and 2 does around a successful attempt
SuccessStep ==
    o_stage \in {1, 2} =>
       /\ (o_pc = "apply" /\ o_pc' = "success") =>
             \/ /\ o_stage = 1
                /\ \E result \in Stage1Results(Len(frames)) :
                      frames' = Stage1Write(frames, result)
             \/ /\ o_stage = 2
                /\ \E plan \in AgentPlans(Len(frames)) :
                      /\ apply_stage2_plan(frames, plan).ok
                      /\ frames' = apply_stage2_plan(frames, plan).frames
       /\ o_pc = "success" =>
             /\ o_pc' = "returned"
             /\ o_lastop' = "reset"
             /\ o_hist' = 0
             /\ o_raised' = NoError
             /\ UNCHANGED <<frames, o_calls, o_attempt>>
       /\ o_pc = "returned" => UNCHANGED <<o_calls, o_hist, frames>>

\* C11: in Stages 1 and 2 an attempt whose response parses and validates
\* (and, in Stage 2, whose plan applies and passes the post-condition) has
\* its result applied to the frames; then the orchestrator calls
\* agent.reset() and returns, whatever the number of failed attempts
\* before, and the agent is not called again.
C11_SuccessReturns ==
    /\ [][SuccessStep]_vars
    /\ (o_stage \in {1, 2} /\ o_pc = "success") ~> (o_pc = "returned")

\* Stage 2 has returned from its third attempt, after two that failed, with
\* the plan applied and the agent's history cleared
C11_Witness ==
    /\ o_stage = 2
    /\ o_pc = "returned"
    /\ o_attempt = 3
    /\ Len(o_errs) = 2
    /\ Len(o_calls) = 3
    /\ o_hist = 0
    /\ frames[1].interactable = "SELECTABLE"

\* C12: in structure_abstraction an attempt that fails with ParseError or
\* ValidationError (a failed post-condition included) leaves the Frame tree
\* as it was before the attempt, so the next plan meets no tag of the
\* failed attempt.
C12_FailedAttemptLeavesTree ==
    [][ (o_stage = 2 /\ AttemptFails) => frames' = frames ]_vars

\* C13: in objective_identification an attempt that fails with ParseError
\* or ValidationError modifies no frame; the frames are written only once
\* validate_stage1 has returned, with a complete result: a description for
\* every frame.
C13_Stage1WritesAfterValidation ==
    [][ o_stage = 1 =>
          /\ AttemptFails => frames' = frames
          /\ frames' # frames =>
                /\ o_pc = "apply"
                /\ o_validated >= 1
                /\ \E result \in Stage1Results(Len(frames)) :
                      /\ Len(result.descriptions) = Len(frames)
                      /\ frames' = Stage1Write(frames, result) ]_vars

\* the second attempt of Stage 1 failed validation after the first failed,
\* and no frame has a description or a relation
C13_Witness ==
    /\ o_stage = 1
    /\ o_pc = "handler"
    /\ o_attempt = 2
    /\ o_exc.kind = "ValidationError"
    /\ frames = Repeat(CaptchaFrame, MaxFrames)

(***************************************************************************)
(* Claims about the runtime configuration                                  *)
(***************************************************************************)
\* the URLs of the model with an http or https scheme and an allowed host,
\* the scheme and the host compared without case, the host without the
\* spaces around it
LocalHttpUrls ==
    BenchmarkUrls({"http:", "https:", "HTTP:"}, {"//"},
                  {"localhost", "LocalHost", " localhost", "127.0.0.1", "0.0.0.0",
                   "host.docker.internal"})

\* a setting that holds a URL which is no local http URL
NonLocal(url) == url \notin {"None", ""} /\ url \notin LocalHttpUrls

\* C21: validate() raises UnsafeTargetError exactly when the override is off
\* and benchmark_url or benchmark_http_url is set to a URL whose scheme is
\* not http or https or whose host is not an allowed one; with the override
\* on it never raises
C21_UnsafeTarget ==
    (f_fn = "validate" /\ f_out.st # "pending") =>
        /\ f_out.st \in {"ok", "UnsafeTargetError"}
        /\ (f_out.st = "UnsafeTargetError") <=>
               /\ ~f_in.allow_nonlocal_benchmark
               /\ NonLocal(f_in.benchmark_url) \/ NonLocal(f_in.benchmark_http_url)

\* validate() has raised for the second URL after it accepted a first URL
\* whose userinfo names another host
C21_Witness ==
    /\ f_fn = "validate"
    /\ f_out.st = "UnsafeTargetError"
    /\ f_in.benchmark_url = "HTTP://localhost@LocalHost:3334"
    /\ f_in.benchmark_http_url = "http://example.com"

\* the settings a require call asks for and finds missing
RequestedMissing ==
    {name \in {"BROWSER_URL", "BENCHMARK_URL", "OPENAI_API_KEY"} :
        \/ name = "BROWSER_URL" /\ f_in.browser /\ f_in.cfg.browser_url \in {"None", ""}
        \/ name = "BENCHMARK_URL" /\ f_in.benchmark
               /\ f_in.cfg.benchmark_url \in {"None", ""}
        \/ name = "OPENAI_API_KEY" /\ f_in.openai
               /\ f_in.cfg.openai_api_key \in {"None", ""}}

\* C22: require raises ConfigError exactly when a requested setting is
\* missing, and its message names every requested and missing variable and
\* no other; otherwise it returns
C22_RequireNamesMissing ==
    (f_fn = "require" /\ f_out.st # "pending") =>
        /\ f_out.st \in {"ok", "ConfigError"}
        /\ (f_out.st = "ConfigError") <=> (RequestedMissing # {})
        /\ f_out.st = "ConfigError" =>
               \A name \in {"BROWSER_URL", "BENCHMARK_URL", "OPENAI_API_KEY"} :
                   (Find(f_out.msg, name, 1) # 0) <=> (name \in RequestedMissing)

\* require has raised for two of three requested settings, and a setting
\* that was not requested is missing too
C22_Witness ==
    /\ f_fn = "require"
    /\ f_out.st = "ConfigError"
    /\ f_in.browser /\ f_in.openai /\ ~f_in.benchmark
    /\ f_in.cfg.benchmark_url = "None"
    /\ RequestedMissing = {"BROWSER_URL", "OPENAI_API_KEY"}

(***************************************************************************)
(* Claims about the steps of a Stage-3 run                                 *)
(***************************************************************************)
\* the names the step at hand binds itself: save_as of a call, var of an
\* assign, var of a foreach when the loop starts or goes on
StepBinds ==
    LET name(key) == IF PyIsStr(Get(Step.d, key)) THEN {Get(Step.d, key).s} ELSE {}
    IN IF Top.pc > Len(Top.steps) THEN (IF Top.kind = "foreach" THEN {Top.var} ELSE {})
       ELSE IF OpIs("call") \/ OpIs("call_method") THEN name("save_as")
       ELSE IF OpIs("assign") \/ OpIs("foreach") THEN name("var")
       ELSE {}

\* a step of a run during which no expression evaluation touches env
EvalKeepsEnv ==
    (s3_pc = "run" /\ s3_run' = s3_run) =>
        /\ \A n \in (DOMAIN env \cup DOMAIN env') \ StepBinds :
              n \in DOMAIN env /\ n \in DOMAIN env' /\ env'[n] = env[n]
        /\ s3_pc' = "raised" => env' = env
        /\ (AtStep /\ OpIs("if")) => env' = env

\* C23: _eval_expr adds, removes and rebinds no entry of env, whether it
\* returns or raises: a step changes at most the name it binds itself, a
\* step whose condition, value, target, list or argument raises changes
\* nothing, and an if changes nothing.
C23_EvalLeavesEnv == [][EvalKeepsEnv]_vars

\* x was bound to 1 and the step x = [1][len(x)] raised inside len: x is
\* still 1 and nothing else is bound
C23_Witness ==
    /\ s3_pc = "raised"
    /\ s3_exc.kind = "TypeError"
    /\ s3_step.j = "dict"
    /\ Get(s3_step.d, "op") = JS("assign")
    /\ Get(Get(s3_step.d, "value").d, "ref") = JS("index")
    /\ env = ("x" :> JI(1))

\* the program that binds x to the images of both frames and runs the loop
\* over x of the step pool
NestedLoops ==
    <<AssignStep("x", MapAttr(JL(<<FrameRef(0), FrameRef(1)>>), "image")),
      ForeachStep("w", Var("x"),
                  <<ForeachStep("v", JL(<<JI(0), JI(1)>>),
                                <<IfStep(Var("v"), <<>>, <<BreakStep>>),
                                  AssignStep("q", Var("v"))>>),
                    AssignStep("x", JL(<<Var("x")>>))>>)>>

\* the foreach blocks of the stack
Loops == {i \in DOMAIN s3_stack : s3_stack[i].kind = "foreach"}

\* a break inside a foreach ends the nearest foreach and nothing else
BreakEndsNearest ==
    (AtStep /\ OpIs("break") /\ Loops # {}) =>
        LET k == CHOOSE i \in Loops : \A m \in Loops : m <= i
        IN /\ s3_pc' = "run"
           /\ env' = env
           /\ Len(s3_stack') = k - 1
           /\ \A i \in 1..(k - 1) : s3_stack'[i] = s3_stack[i]
           /\ LET outer == s3_stack'[k - 1]
              IN /\ outer.pc > 1
                 /\ outer.steps[outer.pc - 1].d["op"] = JS("foreach")
                 /\ outer.steps[outer.pc - 1].d["do"].l = s3_stack[k].steps

\* C24: a break in a foreach body, directly or inside an if, ends only the
\* nearest enclosing foreach: the blocks inside it and the loop itself are
\* left, the rest of the iteration and the remaining elements are skipped,
\* the enclosing blocks stay as they are with the block around the loop at
\* the step after it, and an outer foreach goes on with its next element.
\* In NestedLoops the inner loop breaks at its first element in both
\* iterations of the outer loop: q is never bound, v stays 0, and x is
\* wrapped once per element of the outer list.
C24_BreakEndsNearestLoop ==
    [][ /\ BreakEndsNearest
        /\ (program' = NestedLoops /\ s3_pc' = "returned") =>
              LET images == _eval_expr(NestedLoops[1].d["value"], <<>>, frames).v
              IN env' = ("x" :> JL(<<JL(<<images>>)>>)) @@ ("w" :> images.l[2])
                        @@ ("v" :> JI(0)) ]_vars

\* NestedLoops has returned: the outer loop ran twice
C24_Witness ==
    /\ program = NestedLoops
    /\ s3_pc = "returned"
    /\ "q" \notin DOMAIN env
    /\ env["v"] = JI(0)
    /\ Len(env["x"].l[1].l[1].l) = 2

\* the last step was an assign to a proper name: whatever it raised came
\* out of the evaluation of its value
AssignEvaluated ==
    /\ s3_step.j = "dict"
    /\ Get(s3_step.d, "op") = JS("assign")
    /\ PyIsStr(Get(s3_step.d, "var"))
    /\ Get(s3_step.d, "var").s # ""

\* C25: every failure of the evaluation of a Stage-3 expression (an
\* unsupported shape, an undefined variable, a bad frame id, an index outside
\* the list, a missing attribute, len or sum of a value without them) leaves
\* execute_stage3_program as ToolError.
C25_EvalFailsAsToolError ==
    (s3_pc = "raised" /\ AssignEvaluated) => s3_exc.kind = "ToolError"

\* the step at hand is a call or a call_method with a proper save_as, its
\* callable is invoked and the step ends the run: the callable raised
CallableRaised ==
    /\ AtStep
    /\ OpIs("call") \/ OpIs("call_method")
    /\ \/ Get(Step.d, "save_as") = JNull
       \/ PyIsStr(Get(Step.d, "save_as")) /\ Get(Step.d, "save_as").s # ""
    /\ s3_pc' = "raised"
    /\ s3_ev' # <<>>
    /\ s3_ev'[Len(s3_ev')][1] \in {"tool", "invoke_method"}

\* what the message of a failed call has to name: the tool, or the class of
\* the target and the method
NameOfCallable ==
    IF OpIs("call") THEN Step.d["tool"].s
    ELSE _eval_expr(Step.d["target"], env, frames).v.cls \o "." \o Step.d["method"].s

\* a failing tool or method ends the run with a ToolError that names it and
\* binds nothing; a run that raised executes no further step
FailedCallEndsRun ==
    /\ CallableRaised =>
          /\ s3_exc'.kind = "ToolError"
          /\ Find(s3_exc'.msg, NameOfCallable, 1) # 0
          /\ env' = env
          /\ s3_stack' = <<>>
    /\ s3_pc = "raised" => (s3_run'.n = s3_run.n + 1 /\ s3_step' = JNull)

\* C26: when a registered tool or an allowlisted method raises during a call
\* or call_method step, execute_stage3_program raises ToolError with a
\* message that names the tool (or Class.method), no later step executes and
\* the step's save_as is not bound.
C26_FailedCallIsToolError == [][FailedCallEndsRun]_vars

\* the tool mk raised in the first step of a program of two steps: the run
\* ended with the ToolError that names mk, p is not bound
C26_Witness ==
    /\ s3_pc = "raised"
    /\ Len(program) = 2
    /\ s3_step = CallStep(JS("mk"), JD(<<>>), JS("p"))
    /\ program[1] = s3_step
    /\ s3_exc = [kind |-> "ToolError", at |-> 0, msg |-> "Tool call failed: mk"]
    /\ env = <<>>

\* C29: execute_stage3_program registers, replaces and removes no tool: the
\* callable the registry holds under each name is the same before and after
\* every step, so before and after every run, the failing ones included.
C29_RegistryUnchanged == [][registry' = registry]_vars

\* a run that failed and a run that called a registered tool and returned
\* have both ended, and the registry holds its two tools
C29_Witness ==
    /\ s3_run.n = 2
    /\ s3_run.failed
    /\ s3_pc = "returned"
    /\ LastWasCall
    /\ s3_ev # <<>>
    /\ s3_ev[Len(s3_ev)][1] = "tool"
    /\ registry = ("echo" :> "echo") @@ ("mk" :> "mk")

\* the foreach blocks that are on the stack before and after a step of a run
KeptLoops ==
    {i \in DOMAIN s3_stack \cap DOMAIN s3_stack' : s3_stack[i].kind = "foreach"}

\* a foreach reads its list once, when it starts, and then takes the
\* elements of that list one by one, in order, until the last
LoopRunsOncePerElement ==
    (s3_pc = "run" /\ s3_run' = s3_run) =>
        /\ (AtStep /\ OpIs("foreach") /\ Len(s3_stack') > Len(s3_stack)) =>
              LET new == s3_stack'[Len(s3_stack')]
              IN /\ new.items = _eval_expr(Step.d["in"], env, frames).v.l
                 /\ new.idx = 1
                 /\ env'[new.var] = new.items[1]
        /\ \A i \in KeptLoops :
              /\ s3_stack'[i].items = s3_stack[i].items
              /\ s3_stack'[i].idx \in {s3_stack[i].idx, s3_stack[i].idx + 1}
              /\ s3_stack'[i].idx = s3_stack[i].idx + 1 =>
                    /\ i = Len(s3_stack)
                    /\ Top.pc > Len(Top.steps)
                    /\ s3_stack'[i].pc = 1
                    /\ env' = Bind(env, Top.var, Top.items[Top.idx + 1])
        /\ (Top.kind = "foreach" /\ Len(s3_stack') < Len(s3_stack) /\ s3_pc' = "run"
            /\ Top.pc > Len(Top.steps)) =>
              Top.idx = Len(Top.items)

\* C30: execute_stage3_program terminates for every finite program when its
\* tool and method calls return: a foreach evaluates its list once, before
\* the first iteration, and runs its body once per element, in order, so
\* rebinding the source variable or any other variable in the body does not
\* change the number of iterations.  In NestedLoops the body rebinds the
\* source x to a list of one element, and the loop still reaches the second
\* element of the list it started with.
C30_ForeachTerminates ==
    /\ [][LoopRunsOncePerElement]_vars
    /\ [][(program' = NestedLoops /\ s3_pc' = "returned") =>
              env'["w"] = _eval_expr(NestedLoops[1].d["value"], <<>>, frames).v.l[2]]_vars
    /\ (s3_pc = "run") ~> (s3_pc \in {"returned", "raised"})

\* the loop over x has ended after its body rebound x to a list of one
\* element twice; x was a list of two elements when the loop started
C30_Witness ==
    /\ program = NestedLoops
    /\ s3_pc = "returned"
    /\ Len(env["x"].l) = 1
    /\ Len(env["x"].l[1].l) = 1
    /\ env["w"].j = "obj"


(***************************************************************************)
(* Claims about the vision tools                                           *)
(***************************************************************************)
\* a call of ask, compare or rank that has ended
VisionToolEnded == f_fn \in {"ask", "compare", "rank"} /\ f_out.st # "pending"

\* C27: every invocation of the agent by ask, compare and rank, each batch of
\* rank included, is followed by reset() before the tool invokes the agent
\* again or returns: the history is empty whenever a vision tool sends a
\* prompt and after every vision tool returns
C27_ResetAfterEachInvocation ==
    VisionToolEnded =>
        /\ \A i \in 1..Len(f_out.ops) :
              /\ f_out.ops[i] = "call" =>
                    IF i < Len(f_out.ops) THEN f_out.ops[i + 1] = "reset"
                    ELSE f_out.st # "ok"
              /\ f_out.ops[i] \in {"call", "fail"} =>
                    history(0, SubSeq(f_out.ops, 1, i - 1)) = 0
        /\ f_out.st = "ok" => f_n = 0

\* rank returned after three prompts, two batches and the final round
C27_Witness ==
    /\ f_fn = "rank"
    /\ f_out.st = "ok"
    /\ f_out.ops = <<"call", "reset", "call", "reset", "call", "reset">>
    /\ f_n = 0

\* the list ask found in the reply, "None" when the pattern matched nowhere
AskGroup ==
    re_search(IF f_in.answer_type = "int" THEN "numbers"
              ELSE IF f_in.answer_type = "str" THEN "strings" ELSE "booleans",
              f_in.reply.text)

\* C28: ask returns len(images) falsy defaults (False for bool, 0 otherwise)
\* and raises nothing whenever the reply holds no answer(...) match or the
\* list that matched cannot be parsed by the literal-only list parser
C28_AskDefaultsOnNoAnswer ==
    (/\ f_fn = "ask"
     /\ f_out.st # "pending"
     /\ f_in.reply.ok
     /\ (AskGroup = "None" \/ _safe_literal_list(AskGroup).st # "ok")) =>
        /\ f_out.st = "ok"
        /\ f_out.v = JL(Repeat(IF f_in.answer_type = "bool" THEN JB(FALSE) ELSE JI(0),
                               f_in.n))


(***************************************************************************)
(* Claims about the blocks of a Stage-3 run                                *)
(***************************************************************************)
\* the foreach block the step at hand ends, by running past its last element
\* or by a break (0 if it ends none)
LoopEnding ==
    IF s3_pc = "run" /\ s3_stack # <<>> /\ Top.pc > Len(Top.steps)
    THEN (IF Top.kind = "foreach" /\ Top.idx = Len(Top.items) THEN Len(s3_stack) ELSE 0)
    ELSE IF AtStep /\ OpIs("break") /\ Loops # {}
    THEN CHOOSE i \in Loops : \A m \in Loops : m <= i
    ELSE 0

\* env is one namespace for all blocks: leaving a loop or a branch keeps
\* every binding, a loop that ends leaves its variable bound to the element
\* iterated last (or, when own_binding, to what the body bound it to), a
\* loop over the empty list changes nothing
FlatEnv(own_binding) ==
    (s3_pc = "run" /\ s3_run' = s3_run) =>
        /\ (Len(s3_stack') < Len(s3_stack) /\ s3_pc' # "raised") => env' = env
        /\ LoopEnding # 0 =>
              LET loop == s3_stack[LoopEnding]
              IN /\ loop.var \in DOMAIN env'
                 /\ \/ env'[loop.var] = loop.items[loop.idx]
                    \/ own_binding /\ loop.var \in BoundNames(loop.steps)
        /\ (AtStep /\ OpIs("foreach") /\ s3_pc' = "run"
            /\ Len(s3_stack') = Len(s3_stack)) => env' = env

EnvIsFlat == FlatEnv(FALSE)

EnvIsFlatButForOwnBinding == FlatEnv(TRUE)

Branch(step, key) ==
    IF key \in DOMAIN step.d THEN step.d[key] ELSE JL(<<>>)

\* one step of run_steps on an if step whose cond evaluates
IfTaken ==
    /\ AtStep
    /\ OpIs("if")
    /\ s3_step' = Step
    /\ _eval_expr(Get(Step.d, "cond"), env, frames).st = "ok"

IfRunsOneBranch ==
    IfTaken =>
      LET cond == _eval_expr(Get(Step.d, "cond"), env, frames)
          then_steps == Branch(Step, "then")
          else_steps == Branch(Step, "else")
      IN /\ s3_ev' = cond.ev
         /\ env' = env
         /\ IF then_steps.j # "list" \/ else_steps.j # "list"
            THEN /\ s3_pc' = "raised"
                 /\ s3_exc'.kind = "ToolError"
                 /\ s3_stack' = <<>>
            ELSE /\ s3_pc' = "run"
                 /\ Len(s3_stack') = Len(s3_stack) + 1
                 /\ SubSeq(s3_stack', 1, Len(s3_stack)) = Advanced
                 /\ s3_stack'[Len(s3_stack')].kind = "if"
                 /\ s3_stack'[Len(s3_stack')].pc = 1
                 /\ s3_stack'[Len(s3_stack')].steps =
                      IF PyTruthy(cond.v) THEN then_steps.l ELSE else_steps.l

\* C32: an if step evaluates cond once and then runs exactly one branch, then
\* when cond is truthy and else otherwise, a missing branch being empty; when
\* then or else is present and is not a list the step raises ToolError and no
\* step of either branch runs
C32_IfRunsOneBranch == [][IfRunsOneBranch]_vars

\* the if step with a truthy cond, a then branch that binds x and an else that
\* is a string has raised ToolError and x is unbound
C32_Witness ==
    /\ s3_pc = "raised"
    /\ s3_exc.kind = "ToolError"
    /\ s3_step.j = "dict"
    /\ Get(s3_step.d, "op") = JS("if")
    /\ Get(s3_step.d, "cond") = JI(1)
    /\ Get(s3_step.d, "else") = JS("skip")
    /\ Get(s3_step.d, "then") = JL(<<AssignStep("x", JI(1))>>)
    /\ "x" \notin DOMAIN env


\* a field of a call or call_method step that the step itself rejects: a tool
\* or method that is no string, args that is no object, a save_as that is
\* neither null nor a non-empty string
BadSaveAs(step) ==
    LET save_as == Get(step.d, "save_as")
    IN save_as # JNull /\ (~PyIsStr(save_as) \/ save_as.s = "")

MalformedField(step) ==
    /\ step.j = "dict"
    /\ \/ /\ Get(step.d, "op") = JS("call")
          /\ \/ ~PyIsStr(Get(step.d, "tool"))
             \/ GetD(step.d, "args", JD(EmptyDict)).j # "dict"
             \/ BadSaveAs(step)
       \/ /\ Get(step.d, "op") = JS("call_method")
          /\ \/ ~PyIsStr(Get(step.d, "method"))
             \/ GetD(step.d, "args", JD(EmptyDict)).j # "dict"
             \/ BadSaveAs(step)

\* the tool or the method of the last step was invoked
Invoked ==
    \E i \in DOMAIN s3_ev : s3_ev[i][1] \in {"tool", "invoke_method"}

\* C37: a call or call_method step that raises ToolError because one of its
\* own fields is malformed has not invoked the tool or method
C37_ShapeErrorsBeforeEffects ==
    (/\ s3_pc = "raised"
     /\ s3_exc = Exc("ToolError", 0)
     /\ MalformedField(s3_step))
    => ~Invoked


\* the last step run was a break
LastWasBreak == s3_step.j = "dict" /\ Get(s3_step.d, "op") = JS("break")

\* C38: a break step executed outside any foreach makes
\* execute_stage3_program fail with ToolError: _Break never leaves it
C38_BreakOutsideLoopIsToolError ==
    (s3_pc = "raised" /\ LastWasBreak) => s3_exc.kind = "ToolError"


(***************************************************************************)
(* Claims about rank                                                       *)
(***************************************************************************)
\* rank ended on a non-empty image list and the agent gave a response,
\* whatever its text, each time it was invoked
RankEnded ==
    /\ f_fn = "rank"
    /\ f_out.st # "pending"
    /\ f_in.n >= 1
    /\ \A i \in DOMAIN f_out.ops : f_out.ops[i] # "fail"

\* the invocations of the agent
AgentCalls == Cardinality({i \in DOMAIN f_out.ops : f_out.ops[i] = "call"})

\* C36: for a non-empty image list and any responses of the model, missing
\* and unparseable rank(...) answers included, rank ends after at most two
\* rounds of the tournament, that is after at most ceil(n / 10) + 1
\* invocations of the agent, and returns without raising
C36_RankTerminates ==
    RankEnded =>
        /\ f_out.st = "ok"
        /\ f_out.rounds <= 2
        /\ AgentCalls <= (f_in.n + 9) \div 10 + 1

\* rank returned after two rounds and three invocations on more than ten
\* images, with replies that hold no ranking
C36_Witness ==
    /\ RankEnded
    /\ f_in.n > batch_size
    /\ f_in.replies[1].text = "I cannot tell."
    /\ f_in.replies[2].text = "rank([,])"
    /\ f_in.replies[3].text = "I cannot tell."
    /\ f_out.st = "ok"
    /\ f_out.rounds = 2
    /\ AgentCalls = 3

\* C40: the list rank returns for n images holds every id 0..n-1 exactly
\* once, whatever the model responded
C40_RankIsPermutation ==
    (RankEnded /\ f_out.st = "ok") =>
        /\ Len(f_out.v.l) = f_in.n
        /\ \A id \in 0..(f_in.n - 1) : \E i \in DOMAIN f_out.v.l : f_out.v.l[i] = JI(id)


(***************************************************************************)
(* More claims about the Stage-2 applier                                   *)
(***************************************************************************)
\* the plan is exhausted and the tree it leaves has no tag but NEXT
EndedWithoutType ==
    /\ s2_pc \in {"returned", "raised"}
    /\ s2_exc.at = 0
    /\ TreeTags \subseteq {"NEXT"}

\* C33: apply_stage2_plan raises ValidationError for the empty plan on a tree
\* without tags and for every plan that leaves NEXT as the only tag of the
\* tree: no non-NEXT tag violates the post-condition as two or more do
C33_NoTypeIsRejected ==
    EndedWithoutType => (s2_pc = "raised" /\ s2_exc.kind = "ValidationError")

\* a plan of one action left a single NEXT as the only tag and was rejected
C33_Witness ==
    /\ EndedWithoutType
    /\ s2_i = 1
    /\ TreeTags = {"NEXT"}
    /\ TreeNextCount = 1
    /\ s2_exc = Exc("ValidationError", 0)


C39_ResetAtExit ==
    o_pc \in {"returned", "exhausted"} => (o_lastop = "reset" /\ o_hist = 0)

\* Stage 2 raised after three attempts, the last of them prompted on top of
\* the four messages of the two before, and the history is empty
C39_Witness ==
    /\ o_stage = 2
    /\ o_pc = "exhausted"
    /\ Len(o_calls) = Stage2Attempts
    /\ o_calls[Stage2Attempts].hist = 4
    /\ o_raised.kind = "ValidationError"
    /\ o_lastop = "reset"
    /\ o_hist = 0


(***************************************************************************)
(* Claims about RuntimeConfig.from_env                                     *)
(***************************************************************************)
\* the variable holds, once stripped, one of the values that switch the
\* local-host gate off
SwitchedOff(name) ==
    f_in[name] # "None" /\ Strip(f_in[name]) \in {"1", "true", "True", "yes", "YES"}

\* C35: from_env sets allow_nonlocal_benchmark to true exactly when
\* HALLIGAN_ALLOW_NONLOCAL_BENCHMARK or ALLOW_NONLOCAL_BENCHMARK holds, after
\* stripping whitespace, one of 1, true, True, yes, YES; every other
\* combination of the two leaves the local-host gate enabled
C35_EitherVariableSwitchesOff ==
    (f_fn = "from_env" /\ f_out.st # "pending") =>
        (f_out.cfg.allow_nonlocal_benchmark <=>
            (SwitchedOff("HALLIGAN_ALLOW_NONLOCAL_BENCHMARK")
             \/ SwitchedOff("ALLOW_NONLOCAL_BENCHMARK")))

=============================================================================
